---------------------------- MODULE Spec2Model ----------------------------
(***************************************************************************)
(* Stream resolution and delivery pipeline of the Romanian TV addon        *)
(* (src/addon.js): token manager, relay endpoints (/hls-proxy,             *)
(* /token-playlist, /external-proxy), the channel merge of getData, the    *)
(* /stream and /catalog handlers, and the poster warmup script             *)
(* (src/unnamed/part_000).                                                 *)
(*                                                                         *)
(* Strings are sequences of atoms.  An atom is either one character that   *)
(* the code's string operations look at ("/", "?", "%", ":", hex digits,   *)
(* ...) or a run of unreserved characters none of those operations can     *)
(* split ("https", "seg", ".m3u8", ...).                                   *)
(***************************************************************************)
EXTENDS Integers, Sequences, FiniteSets, TLC

VARIABLES
    now,            \* Date.now(), in ms
    tokenCache,     \* Map<sourceUrl, {token, remote, expires}>
    gvt,            \* per caller: the getValidToken call it is in
    tokenRequests,  \* GETs sent to the token origin so far
    lastCall,       \* ObservedKey: record handed out by its latest call if that was a cache hit
    storedSince,    \* ObservedKey: a fetch stored a record since its latest call began
    hls,            \* the /hls-proxy request being served
    tp,             \* the /token-playlist request being served
    ext,            \* the /external-proxy request being served
    customChannels,         \* Object.values(customChannels), in file order
    excludeIptvChannelIds,  \* customChannelsConfig.excludeIptvChannelIds
    enableCustomChannels,   \* ENABLE_CUSTOM_CHANNELS
    cache,          \* {channels, streams}, and the registry channels it was merged from
    lastFetch,
    lastETag,
    gd,             \* per caller: the getData call it is in
    nm,             \* a call of channelNamesMatch: its two names and its results
    sr,             \* the /stream request: its channel id and its answer
    cat,            \* the /catalog request: its parameters, its snapshot and its pages
    wu              \* the poster warmup script: main's loop and its generatePoster call

tokenVars == <<now, tokenCache, gvt, tokenRequests, lastCall, storedSince>>

relayVars == <<hls, tp, ext>>

dataVars == <<customChannels, excludeIptvChannelIds, enableCustomChannels, cache,
              lastFetch, lastETag, gd>>

matchVars == <<nm>>

routerVars == <<sr>>

pageVars == <<cat, wu>>

vars == <<now, tokenCache, gvt, tokenRequests, lastCall, storedSince, hls, tp, ext,
          customChannels, excludeIptvChannelIds, enableCustomChannels, cache,
          lastFetch, lastETag, gd, nm, sr, cat, wu>>

(***************************************************************************)
(* Bounds of the model                                                     *)
(***************************************************************************)
NumCallers == 2
MaxTicks == 2
TickMs == 30000
MaxRequests == 2
MaxLines == 2
MaxRegistry == 2
NumGetters == 1
MaxDataTicks == 1
MaxNameLen == 2
NumRoundCallers == 2
NumPosterChannels == 2

Callers == 1..NumCallers

(***************************************************************************)
(* Strings: helpers over sequences of atoms                                *)
(***************************************************************************)
StartsWith(s, p) == Len(p) <= Len(s) /\ SubSeq(s, 1, Len(p)) = p

Includes(s, p) == \E i \in 0..(Len(s) - Len(p)) : SubSeq(s, i + 1, i + Len(p)) = p

\* 1-based position of the last atom a in s, 0 when there is none
\* (String.prototype.lastIndexOf(a) + 1).
LastIndexOf(s, a) ==
    LET hits == {i \in 1..Len(s) : s[i] = a}
    IN  IF hits = {} THEN 0 ELSE CHOOSE i \in hits : \A j \in hits : j <= i

RECURSIVE Concat(_)
Concat(ss) == IF ss = <<>> THEN <<>> ELSE Head(ss) \o Concat(Tail(ss))

\* String.prototype.trim: the only whitespace atom is " "
RECURSIVE TrimLeft(_)
TrimLeft(s) == IF s # <<>> /\ Head(s) = " " THEN TrimLeft(Tail(s)) ELSE s

RECURSIVE TrimRight(_)
TrimRight(s) ==
    IF s # <<>> /\ s[Len(s)] = " " THEN TrimRight(SubSeq(s, 1, Len(s) - 1)) ELSE s

Trim(s) == TrimRight(TrimLeft(s))

\* sequences over S of length 0..n
SeqsUpTo(S, n) == UNION {[1..k -> S] : k \in 0..n}

(***************************************************************************)
(* Percent-encoding                                                        *)
(***************************************************************************)
\* encodeURIComponent on one atom: the reserved characters of the alphabet
\* become "%" and two hex digits, unreserved runs are kept
EncodeAtom(a) ==
    CASE a = "/" -> <<"%", "2", "F">>
      [] a = ":" -> <<"%", "3", "A">>
      [] a = "?" -> <<"%", "3", "F">>
      [] a = "=" -> <<"%", "3", "D">>
      [] a = "&" -> <<"%", "2", "6">>
      [] a = "%" -> <<"%", "2", "5">>
      [] a = " " -> <<"%", "2", "0">>
      [] OTHER   -> <<a>>

EncodeURIComponent(s) == Concat([i \in 1..Len(s) |-> EncodeAtom(s[i])])

\* the character a "%xy" escape stands for; <<>> when x, y are not two hex
\* digits of an escape of the alphabet
PercentChar(x, y) ==
    CASE x = "2" /\ y = "F" -> <<"/">>
      [] x = "3" /\ y = "A" -> <<":">>
      [] x = "3" /\ y = "F" -> <<"?">>
      [] x = "3" /\ y = "D" -> <<"=">>
      [] x = "2" /\ y = "6" -> <<"&">>
      [] x = "2" /\ y = "5" -> <<"%">>
      [] x = "2" /\ y = "0" -> <<" ">>
      [] OTHER              -> <<>>

\* decodeURIComponent from position i on: ok = FALSE is the URIError thrown
\* on a "%" that does not start an escape
RECURSIVE DecodeFrom(_, _)
DecodeFrom(s, i) ==
    IF i > Len(s) THEN [ok |-> TRUE, v |-> <<>>]
    ELSE IF s[i] = "%"
         THEN IF i + 2 <= Len(s) /\ PercentChar(s[i + 1], s[i + 2]) # <<>>
              THEN LET r == DecodeFrom(s, i + 3)
                   IN  [ok |-> r.ok, v |-> PercentChar(s[i + 1], s[i + 2]) \o r.v]
              ELSE [ok |-> FALSE, v |-> <<>>]
         ELSE LET r == DecodeFrom(s, i + 1)
              IN  [ok |-> r.ok, v |-> <<s[i]>> \o r.v]

DecodeURIComponent(s) == DecodeFrom(s, 1)

(***************************************************************************)
(* URLs                                                                    *)
(***************************************************************************)
Schemes == {"http", "https"}
Hosts == {"cdn.example", "www.google.com", "ivanturbinca.com", "magicplaces.eu",
          "s1.magicplaces.eu", "addon.local"}

\* new URL(s) does not throw: s is scheme://host followed by a path or query
ParsesAsUrl(s) ==
    /\ Len(s) >= 5
    /\ s[1] \in Schemes /\ s[2] = ":" /\ s[3] = "/" /\ s[4] = "/"
    /\ s[5] \in Hosts
    /\ (Len(s) = 5 \/ s[6] \in {"/", "?"})

Hostname(s) == s[5]

\* URL.origin, and `${protocol}//${hostname}` (no port is modelled)
UrlOrigin(s) == SubSeq(s, 1, 5)

\* the URL without its query: scheme, host and URL.pathname
PathOf(url) ==
    LET qs == {i \in 1..Len(url) : url[i] = "?"}
    IN  IF qs = {} THEN url
        ELSE SubSeq(url, 1, (CHOOSE i \in qs : \A j \in qs : i <= j) - 1)

\* `${req.protocol}://${req.headers.host}`
BaseUrl == <<"http", ":", "/", "/", "addon.local">>

(***************************************************************************)
(* Token manager                                                           *)
(***************************************************************************)
TOKEN_REFRESH_LEAD_TIME == 30000

U_ch1 == <<"https", ":", "/", "/", "magicplaces.eu", "/", "ch1", "/", "video", ".m3u8">>
U_ch2 == <<"https", ":", "/", "/", "magicplaces.eu", "/", "ch2", "/", "video", ".m3u8">>

\* base token URLs used as cache keys
TokenKeys == {U_ch1, U_ch2}

\* the JSON the token origin answers with: token "" stands for a missing
\* token field, remote "" for a missing remote field, expires is epoch seconds
ExpiryDeltas == {0, 90}
OriginAnswers(t) ==
    {[token |-> x[1], remote |-> x[2], expires |-> (t \div 1000) + d] :
        x \in {<<"", "">>, <<"t1", "">>, <<"t2", "ip1">>}, d \in ExpiryDeltas}

\* the key whose successive calls the history variables follow
ObservedKey == U_ch1

NoCall == [pc |-> "idle", key |-> <<>>, ret |-> <<>>]

\* line 117: cached && cached.expires > now + TOKEN_REFRESH_LEAD_TIME
CachedIsValid_NoLead(tc, key, t) ==
    key \in DOMAIN tc /\ tc[key].expires > t

CachedIsValid(tc, key, t) ==
    key \in DOMAIN tc /\ tc[key].expires > t + TOKEN_REFRESH_LEAD_TIME

\* lines 97-101: the record built from the origin's answer
TokenDataOf(data) ==
    [token   |-> data.token,
     remote  |-> IF data.remote = "" THEN "no_check_ip" ELSE data.remote,
     expires |-> data.expires * 1000]

\* Map.prototype.set
MapSet_KeepsPrior(m, k, v) == [x \in DOMAIN m \cup {k} |-> IF x \in DOMAIN m THEN m[x] ELSE v]

MapSet(m, k, v) == [x \in DOMAIN m \cup {k} |-> IF x = k THEN v ELSE m[x]]

\* getValidToken up to the first await: the cache check, then either the
\* cached record or the GET of fetchToken being sent
GetValidToken(c, key) ==
    /\ gvt[c].pc = "idle"
    /\ IF CachedIsValid(tokenCache, key, now)
       THEN /\ gvt' = [gvt EXCEPT ![c] = [pc |-> "returned", key |-> key,
                                          ret |-> <<tokenCache[key]>>]]
            /\ lastCall' = IF key = ObservedKey THEN <<tokenCache[key]>> ELSE lastCall
            /\ UNCHANGED tokenRequests
       ELSE /\ tokenRequests < MaxRequests
            /\ gvt' = [gvt EXCEPT ![c] = [pc |-> "fetching", key |-> key, ret |-> <<>>]]
            /\ lastCall' = IF key = ObservedKey THEN <<>> ELSE lastCall
            /\ tokenRequests' = tokenRequests + 1
    /\ storedSince' = (storedSince /\ key # ObservedKey)
    /\ UNCHANGED <<now, tokenCache>>

\* fetchToken after the await: the origin answered with JSON `data`
FetchTokenAnswer(c, data) ==
    /\ gvt[c].pc = "fetching"
    /\ IF data.token = ""
       THEN /\ gvt' = [gvt EXCEPT ![c].pc = "failed"]
            /\ UNCHANGED <<tokenCache, storedSince>>
       ELSE /\ tokenCache' = MapSet(tokenCache, gvt[c].key, TokenDataOf(data))
            /\ gvt' = [gvt EXCEPT ![c].pc = "returned", ![c].ret = <<TokenDataOf(data)>>]
            /\ storedSince' = (storedSince \/ gvt[c].key = ObservedKey)
    /\ UNCHANGED <<now, tokenRequests, lastCall>>

\* fetchToken after the await: axios.get rejected (network error, timeout,
\* error status); the error is rethrown
FetchTokenError_Evicts(c) ==
    /\ gvt[c].pc = "fetching"
    /\ gvt' = [gvt EXCEPT ![c].pc = "failed"]
    /\ tokenCache' = [k \in DOMAIN tokenCache \ {gvt[c].key} |-> tokenCache[k]]
    /\ UNCHANGED <<now, tokenRequests, lastCall, storedSince>>

FetchTokenError(c) ==
    /\ gvt[c].pc = "fetching"
    /\ gvt' = [gvt EXCEPT ![c].pc = "failed"]
    /\ UNCHANGED <<now, tokenCache, tokenRequests, lastCall, storedSince>>

\* the caller of getValidToken has used the result (or handled the error)
CallerDone(c) ==
    /\ gvt[c].pc \in {"returned", "failed"}
    /\ gvt' = [gvt EXCEPT ![c] = NoCall]
    /\ UNCHANGED <<now, tokenCache, tokenRequests, lastCall, storedSince>>

Tick ==
    /\ now + TickMs <= MaxTicks * TickMs
    /\ now' = now + TickMs
    /\ UNCHANGED <<tokenCache, gvt, tokenRequests, lastCall, storedSince>>

(***************************************************************************)
(* /hls-proxy                                                              *)
(***************************************************************************)
HlsPrefix == BaseUrl \o <<"/", "hls-proxy", "/">>

U_cdn == <<"https", ":", "/", "/", "cdn.example", "/", "path", "/", "video", ".m3u8">>
U_seg == <<"https", ":", "/", "/", "cdn.example", "/", "path", "/", "seg1", ".ts">>
\* a target that carries a percent-escape of its own, one with a bare "%",
\* and one that is not an absolute URL
U_esc == <<"https", ":", "/", "/", "cdn.example", "/", "a", "%", "2", "F", "b", ".m3u8">>
U_pct == <<"https", ":", "/", "/", "cdn.example", "/", "a", "%", "b", ".ts">>
U_rel == <<"sub", ".m3u8">>

\* the URLs a client asks /hls-proxy for
HlsTargets == {U_cdn, U_seg, U_esc, U_pct}

\* response.request.res.responseUrl: <<>> when it is not set, else the URL the
\* redirects ended at
F_query  == <<"https", ":", "/", "/", "cdn.example", "/", "path", "/", "video", ".m3u8",
              "?", "u", "=", "a", "/", "b">>
F_google == <<"https", ":", "/", "/", "www.google.com", "/">>
F_bad    == <<"/", "error">>
ResponseUrls == {<<>>, F_query, F_google, F_bad}

\* the content-type header of the upstream response, "" when it has none
ContentTypes == {"", "application/vnd.apple.mpegurl", "video/mp2t"}

HashAtoms == {"#EXTM3U", "#EXTINF"}

L_marker   == <<"#EXTM3U">>
L_relative == <<"seg1", ".ts">>
L_root     == <<"/", "live", "/", "seg1", ".ts">>
L_absolute == <<"https", ":", "/", "/", "cdn.example", "/", "seg1", ".ts">>
L_badhost  == <<"/", "/">>
L_blank    == <<" ">>

\* the lines an upstream body is made of
HlsLines == {L_marker, L_relative, L_root, L_absolute, L_badhost, L_blank}
HlsBodies == SeqsUpTo(HlsLines, MaxLines)

\* line 707, 710: errorDomains.some(domain => finalDomain.includes(domain)),
\* with the substrings each host name of the model contains
ErrorDomains == {"google.com", "www.google.com", "yahoo.com", "bing.com"}

HostSubstrings(h) ==
    CASE h = "www.google.com" -> {"google.com", "www.google.com"}
      [] h = "s1.magicplaces.eu" -> {"magicplaces.eu", "s1.magicplaces.eu"}
      [] OTHER -> {h}

IsErrorDomain_ExactGoogle(h) == h = "google.com"

IsErrorDomain(h) == \E d \in ErrorDomains : d \in HostSubstrings(h)

\* line 720: the content type the response is classified and served with
EffectiveContentType(ct) == IF ct = "" THEN "application/vnd.apple.mpegurl" ELSE ct

\* line 727
IsPlaylistResponse(contentType, streamUrl) ==
    \/ contentType = "application/vnd.apple.mpegurl"
    \/ Includes(streamUrl, <<".m3u8">>)

\* playlistData.includes('#EXTM3U')
HasMarker(body) == \E i \in 1..Len(body) : Includes(body[i], <<"#EXTM3U">>)

\* /^(?!#|http)(.+)$/gm matches this line
RegexMatches_AlsoHttp(line) == line # <<>> /\ Head(line) \notin HashAtoms

RegexMatches(line) ==
    line # <<>> /\ Head(line) \notin HashAtoms /\ Head(line) \notin Schemes

\* line 748: finalUrl.substring(0, finalUrl.lastIndexOf('/') + 1)
StreamBaseUrl(finalUrl) == SubSeq(finalUrl, 1, LastIndexOf(finalUrl, "/"))

\* URL serialisation of a path: a space becomes %20
HrefAtom(a) == IF a = " " THEN <<"%", "2", "0">> ELSE <<a>>

\* line 759: new URL(t, new URL(finalUrl).origin).href for t starting with "/";
\* "//host..." is scheme-relative, "//" with no host throws
ResolveRootRelative(t, finalUrl) ==
    IF Len(t) >= 2 /\ t[2] = "/"
    THEN IF Len(t) >= 3 /\ t[3] \in Hosts
         THEN [ok |-> TRUE, v |-> <<finalUrl[1], ":">> \o t]
         ELSE [ok |-> FALSE, v |-> <<>>]
    ELSE [ok |-> TRUE,
          v |-> UrlOrigin(finalUrl) \o Concat([i \in 1..Len(t) |-> HrefAtom(t[i])])]

\* lines 753-766: the replace callback, applied to one line of the playlist
HlsRewriteLine(line, finalUrl) ==
    IF ~RegexMatches(line) THEN line
    ELSE LET t == Trim(line)
         IN  IF t = <<>> THEN line
             ELSE IF Head(t) = "/"
                  THEN LET r == ResolveRootRelative(t, finalUrl)
                       IN  IF r.ok THEN HlsPrefix \o EncodeURIComponent(r.v)
                           ELSE line
                  ELSE HlsPrefix \o EncodeURIComponent(StreamBaseUrl(finalUrl) \o t)

HlsRewrite(body, finalUrl) == [i \in 1..Len(body) |-> HlsRewriteLine(body[i], finalUrl)]

\* Express hands the handler req.params.streamUrl already percent-decoded
\* once: the path segment the client sent is encodeURIComponent(u)
ExpressParam(u) == DecodeURIComponent(EncodeURIComponent(u))

\* line 674 (also 536, 623): the handler decodes the parameter once more
HandlerDecode(param) == DecodeURIComponent(param)

NoRejection == [class |-> "none", status |-> 0]

\* prev: the failure class and the status of the last rejection a client of
\* /hls-proxy has seen before this request; clientGone: the client of this
\* request has closed its connection
NoHls == [pc |-> "idle", u |-> <<>>, streamUrl |-> <<>>, finalUrl |-> <<>>,
          contentType |-> "", pending |-> <<>>, playlistData |-> <<>>,
          status |-> 0, error |-> "", out |-> <<>>, sent |-> 0,
          prev |-> NoRejection, clientGone |-> FALSE]

\* the failure class of a finished request, by the branch that rejected it:
\* lines 707-715 (sentinel host), 736-745 (no marker), 784-792 (axios error)
FailureClass(h) ==
    CASE h.pc # "done" -> "none"
      [] h.error = "Stream not available" -> "StreamUnavailable"
      [] h.error = "Stream unavailable" -> "InvalidFormat"
      [] h.error = "Stream server timeout" -> "UpstreamTimeout"
      [] h.error = "Stream server refused connection" -> "UpstreamRefused"
      [] h.error = "Stream server returned status" -> "UpstreamError"
      [] OTHER -> "none"

LastRejection(h) ==
    IF FailureClass(h) = "none" THEN h.prev
    ELSE [class |-> FailureClass(h), status |-> h.status]

\* res.status(code).json({error: ...})
HlsReject(code, err) ==
    hls' = [hls EXCEPT !.pc = "done", !.status = code, !.error = err, !.sent = @ + 1]

\* lines 672-701: the request arrives, the target is decoded and the GET is sent;
\* a decoding error is caught at line 779
HlsRequest(u) ==
    /\ hls.pc \in {"idle", "done"}
    /\ LET d == HandlerDecode(ExpressParam(u).v)
       IN  IF d.ok
           THEN hls' = [NoHls EXCEPT !.pc = "fetching", !.u = u, !.streamUrl = d.v,
                                     !.prev = LastRejection(hls)]
           ELSE hls' = [NoHls EXCEPT !.pc = "done", !.u = u, !.status = 500,
                                     !.error = "Failed to proxy stream", !.sent = 1,
                                     !.prev = LastRejection(hls)]

\* lines 703-777: axios.get resolved (status < 400) with a body stream
HlsUpstreamOk(responseUrl, ct, body) ==
    /\ hls.pc = "fetching"
    /\ LET finalUrl == IF responseUrl = <<>> THEN hls.streamUrl ELSE responseUrl
       IN  IF ~ParsesAsUrl(finalUrl)
           THEN hls' = [hls EXCEPT !.pc = "done", !.finalUrl = finalUrl, !.status = 500,
                                   !.error = "Invalid redirect URL", !.sent = @ + 1]
           ELSE IF IsErrorDomain(Hostname(finalUrl))
           THEN hls' = [hls EXCEPT !.pc = "done", !.finalUrl = finalUrl, !.status = 404,
                                   !.error = "Stream not available", !.sent = @ + 1]
           ELSE hls' = [hls EXCEPT
                    !.pc = IF IsPlaylistResponse(EffectiveContentType(ct), hls.streamUrl)
                           THEN "buffering" ELSE "piping",
                    !.finalUrl = finalUrl,
                    !.contentType = EffectiveContentType(ct),
                    !.pending = body]

\* lines 779-799: axios.get rejected
UpstreamFailures == {"ECONNREFUSED", "ETIMEDOUT", "ECONNABORTED", "status", "other"}
UpstreamErrorStatuses == {403, 502}

HlsUpstreamFail(code, st) ==
    /\ hls.pc = "fetching"
    /\ CASE code = "ECONNREFUSED" -> HlsReject(503, "Stream server refused connection")
         [] code \in {"ETIMEDOUT", "ECONNABORTED"} -> HlsReject(504, "Stream server timeout")
         [] code = "status" -> HlsReject(st, "Stream server returned status")
         [] OTHER -> HlsReject(500, "Failed to proxy stream")

\* lines 730-732: the playlist text arrives (in one chunk)
HlsData ==
    /\ hls.pc = "buffering"
    /\ hls.pending # <<>>
    /\ hls' = [hls EXCEPT !.playlistData = @ \o hls.pending, !.pending = <<>>]

\* lines 734-773: the upstream stream ended
HlsEnd ==
    /\ hls.pc = "buffering"
    /\ hls.pending = <<>>
    /\ IF ~HasMarker(hls.playlistData)
       THEN HlsReject(404, "Stream unavailable")
       ELSE hls' = [hls EXCEPT !.pc = "done", !.status = 200,
                               !.out = HlsRewrite(hls.playlistData, hls.finalUrl),
                               !.sent = @ + 1]

\* line 776: the media bytes are piped to the client (in one chunk)
HlsPipeChunk ==
    /\ hls.pc = "piping"
    /\ ~hls.clientGone
    /\ hls.pending # <<>>
    /\ hls' = [hls EXCEPT !.status = 200, !.out = @ \o hls.pending, !.pending = <<>>]

\* line 776: the piped stream ended, pipe() ends the response
HlsPipeEnd ==
    /\ hls.pc = "piping"
    /\ ~hls.clientGone
    /\ hls.pending = <<>>
    /\ hls' = [hls EXCEPT !.pc = "done", !.status = 200, !.sent = @ + 1]

\* the client closes its connection while the body is buffered or piped: the
\* handler registers nothing on req or res (lines 672-777); pipe() of line 776
\* unpipes on the 'close' of res and leaves response.data open and unread, the
\* 'data' and 'end' listeners of lines 730-734 go on
HlsClientClose ==
    /\ hls.pc \in {"buffering", "piping"}
    /\ ~hls.clientGone
    /\ hls' = [hls EXCEPT !.clientGone = TRUE]

\* the upstream stream emits 'error' or closes before 'end': lines 730-777
\* register 'data' and 'end' only and pipe() forwards no error, so nothing
\* ends the response
HlsStreamError ==
    /\ hls.pc \in {"buffering", "piping"}
    /\ hls' = [hls EXCEPT !.pc = "stalled"]

(***************************************************************************)
(* /token-playlist                                                         *)
(***************************************************************************)
TpPrefix == BaseUrl \o <<"/", "token-playlist", "/">>

U_ch1sub == <<"https", ":", "/", "/", "magicplaces.eu", "/", "ch1", "/", "tracks", "/",
              "mono", ".m3u8">>

\* the URLs a client asks /token-playlist for
TpTargets == {U_ch1, U_ch1sub, U_ch2, U_rel}

L_nested   == <<"sub", ".m3u8">>
L_rootlist == <<"/", "ch1", "/", "sub", ".m3u8">>
L_php      == <<"/", "hls-proxy.php", "?", "src", "=", "https", "%", "3", "A", "%", "2", "F",
                "%", "2", "F", "magicplaces.eu", "%", "2", "F", "ch1", "%", "2", "F",
                "seg1", ".ts">>
L_phpbad   == <<"/", "hls-proxy.php", "?", "src", "=", "%">>

TpLines == {L_marker, L_relative, L_root, L_nested, L_rootlist, L_php, L_phpbad}
TpBodies == SeqsUpTo(TpLines, MaxLines)

\* lines 543, 545: urlObj.pathname.split('/').filter(p => p)[0], the text
\* "undefined" when the path has no segment
FirstPathSegment(url) ==
    LET path  == SubSeq(PathOf(url), 6, Len(PathOf(url)))
        start == {i \in 1..Len(path) : path[i] # "/"}
    IN  IF start = {} THEN <<"undefined">>
        ELSE LET b == CHOOSE i \in start : \A j \in start : i <= j
                 e == CHOOSE i \in b..Len(path) :
                        /\ \A j \in b..i : path[j] # "/"
                        /\ (i = Len(path) \/ path[i + 1] = "/")
             IN  SubSeq(path, b, e)

\* line 545
BaseTokenUrl(url) ==
    UrlOrigin(url) \o <<"/">> \o FirstPathSegment(url) \o <<"/", "video", ".m3u8">>

\* line 581: trimmedMatch.match(/src=([^&]+)/), <<>> when there is no match
SrcCapture(t) ==
    LET at == {i \in 1..(Len(t) - 2) : t[i] = "src" /\ t[i + 1] = "=" /\ t[i + 2] # "&"}
    IN  IF at = {} THEN <<>>
        ELSE LET b == (CHOOSE i \in at : \A j \in at : i <= j) + 2
                 e == CHOOSE i \in b..Len(t) :
                        /\ \A j \in b..i : t[j] # "&"
                        /\ (i = Len(t) \/ t[i + 1] = "&")
             IN  SubSeq(t, b, e)

\* lines 124-134: token and remote set as query parameters; URL.toString()
\* gives a URL without path the path "/"
AppendTokenToUrl(url, tokenData) ==
    LET sep   == IF Includes(url, <<"?">>) THEN "&" ELSE "?"
        query == <<"token", "=", tokenData.token, "&", "remote", "=", tokenData.remote>>
    IN  IF ParsesAsUrl(url)
        THEN (IF Len(url) = 5 THEN url \o <<"/">> ELSE url) \o <<sep>> \o query
        ELSE url \o <<sep>> \o query

\* lines 573-600: the replace callback; ok = FALSE when decodeURIComponent
\* throws, which nothing inside the callback catches
TpRewriteLine(line, sourceBase, tokenData) ==
    IF ~RegexMatches(line) \/ Trim(line) = <<>> THEN [ok |-> TRUE, v |-> line]
    ELSE LET t   == Trim(line)
             php == StartsWith(t, <<"/", "hls-proxy.php", "?", "src", "=">>)
             dec == DecodeURIComponent(SrcCapture(t))
             abs == IF php THEN dec.v
                    ELSE IF Head(t) = "/" THEN sourceBase \o t
                    ELSE t
         IN  IF php /\ SrcCapture(t) = <<>> THEN [ok |-> TRUE, v |-> line]
             ELSE IF php /\ ~dec.ok THEN [ok |-> FALSE, v |-> <<>>]
             ELSE IF Includes(abs, <<".m3u8">>)
                  THEN [ok |-> TRUE, v |-> TpPrefix \o EncodeURIComponent(abs)]
                  ELSE [ok |-> TRUE, v |-> AppendTokenToUrl(abs, tokenData)]

NoTp == [pc |-> "idle", u |-> <<>>, sourceUrl |-> <<>>, tokenData |-> <<>>,
         playlistData |-> <<>>, status |-> 0, error |-> "", out |-> <<>>, sent |-> 0]

\* the getValidToken call of the /token-playlist request
TpCaller == 1

TpReject(err) ==
    tp' = [tp EXCEPT !.pc = "done", !.status = 500, !.error = err, !.sent = @ + 1]

\* lines 534-548: the request arrives; the source URL is decoded and parsed and
\* getValidToken is called with the base token URL
TpRequest(u) ==
    /\ tp.pc \in {"idle", "done"}
    /\ gvt[TpCaller].pc = "idle"
    /\ LET d == HandlerDecode(ExpressParam(u).v)
       IN  IF d.ok /\ ParsesAsUrl(d.v)
           THEN /\ tp' = [NoTp EXCEPT !.pc = "token", !.u = u, !.sourceUrl = d.v]
                /\ GetValidToken(TpCaller, BaseTokenUrl(d.v))
           ELSE /\ tp' = [NoTp EXCEPT !.pc = "done", !.u = u,
                                      !.sourceUrl = IF d.ok THEN d.v ELSE <<>>,
                                      !.status = 500,
                                      !.error = "Failed to fetch token playlist",
                                      !.sent = 1]
                /\ UNCHANGED tokenVars

\* line 548 threw: caught at line 611
TpTokenFailed ==
    /\ tp.pc = "token"
    /\ gvt[TpCaller].pc = "failed"
    /\ TpReject("Failed to fetch token playlist")
    /\ CallerDone(TpCaller)

\* lines 548-558: the token is there, the GET of the playlist is sent
TpSendGet ==
    /\ tp.pc = "token"
    /\ gvt[TpCaller].pc = "returned"
    /\ tp' = [tp EXCEPT !.pc = "fetching", !.tokenData = gvt[TpCaller].ret]
    /\ CallerDone(TpCaller)

\* lines 560-609: the playlist arrived; text = FALSE is a body axios parsed
\* into an object, on which includes() throws
TpUpstreamOk(body, text) ==
    /\ tp.pc = "fetching"
    /\ LET sourceBase == UrlOrigin(tp.sourceUrl)
           lines == [i \in 1..Len(body) |->
                        TpRewriteLine(body[i], sourceBase, tp.tokenData[1])]
       IN  IF ~text
           THEN TpReject("Failed to fetch token playlist")
           ELSE IF ~HasMarker(body)
           THEN tp' = [tp EXCEPT !.pc = "done", !.playlistData = body, !.status = 500,
                                 !.error = "Invalid playlist format", !.sent = @ + 1]
           ELSE IF \E i \in 1..Len(body) : ~lines[i].ok
           THEN tp' = [tp EXCEPT !.pc = "done", !.playlistData = body, !.status = 500,
                                 !.error = "Failed to fetch token playlist",
                                 !.sent = @ + 1]
           ELSE tp' = [tp EXCEPT !.pc = "done", !.playlistData = body, !.status = 200,
                                 !.out = [i \in 1..Len(body) |-> lines[i].v],
                                 !.sent = @ + 1]
    /\ UNCHANGED tokenVars

\* lines 611-617: axios.get rejected
TpUpstreamFail ==
    /\ tp.pc = "fetching"
    /\ TpReject("Failed to fetch token playlist")
    /\ UNCHANGED tokenVars

(***************************************************************************)
(* /external-proxy                                                         *)
(***************************************************************************)
ExtPrefix == BaseUrl \o <<"/", "external-proxy", "/">>

U_php == <<"https", ":", "/", "/", "ivanturbinca.com", "/", "hls-proxy.php", "?", "src",
           "=", "x">>

\* the URLs a client asks /external-proxy for
ExtTargets == {U_php, U_cdn, U_esc}

ExtLines == {L_marker, L_relative, L_root, L_nested, L_rootlist, L_absolute}
ExtBodies == SeqsUpTo(ExtLines, MaxLines)

\* lines 640-656: the replace callback
ExtRewriteLine(line, sourceBase) ==
    IF ~RegexMatches(line) \/ Trim(line) = <<>> THEN line
    ELSE LET abs == IF Head(Trim(line)) = "/" THEN sourceBase \o Trim(line) ELSE line
         IN  IF Includes(abs, <<".m3u8">>)
             THEN ExtPrefix \o EncodeURIComponent(abs)
             ELSE HlsPrefix \o EncodeURIComponent(abs)

NoExt == [pc |-> "idle", u |-> <<>>, streamUrl |-> <<>>, playlistData |-> <<>>,
          status |-> 0, error |-> "", out |-> <<>>, sent |-> 0]

ExtReject ==
    ext' = [ext EXCEPT !.pc = "done", !.status = 500,
                       !.error = "Failed to fetch external stream", !.sent = @ + 1]

\* lines 621-631: the request arrives, the target is decoded, the GET is sent
ExtRequest(u) ==
    /\ ext.pc \in {"idle", "done"}
    /\ LET d == HandlerDecode(ExpressParam(u).v)
       IN  IF d.ok
           THEN ext' = [NoExt EXCEPT !.pc = "fetching", !.u = u, !.streamUrl = d.v]
           ELSE ext' = [NoExt EXCEPT !.pc = "done", !.u = u, !.status = 500,
                                     !.error = "Failed to fetch external stream",
                                     !.sent = 1]

\* lines 633-663: the body arrived and is rewritten and sent; text = FALSE is
\* a body axios parsed into an object, which has no replace()
ExtUpstreamOk(body, text) ==
    /\ ext.pc = "fetching"
    /\ IF ~text \/ ~ParsesAsUrl(ext.streamUrl)
       THEN ExtReject
       ELSE ext' = [ext EXCEPT
                !.pc = "done", !.playlistData = body, !.status = 200,
                !.out = [i \in 1..Len(body) |->
                            ExtRewriteLine(body[i], UrlOrigin(ext.streamUrl))],
                !.sent = @ + 1]

\* lines 665-668: axios.get rejected
ExtUpstreamFail ==
    /\ ext.pc = "fetching"
    /\ ExtReject

(***************************************************************************)
(* Origin data cache and channel merge (getData)                           *)
(***************************************************************************)
TTL == 3600000
\* the clock step of the data cache scenarios: one TTL
DataTickMs == TTL

Getters == 1..NumGetters

\* channel names, one character per atom
N_ProTV   == <<"P", "r", "o", " ", "T", "V">>
N_ProTVHD == <<"P", "r", "o", " ", "T", "V", " ", "H", "D">>
N_Digi24  == <<"D", "i", "g", "i", "2", "4", ".", "r", "o">>
N_TV      == <<"T", "V">>
N_Plus    == <<"+">>

\* String.prototype.toLowerCase on one character
LowerChar(ch) ==
    CASE ch = "P" -> "p" [] ch = "T" -> "t" [] ch = "V" -> "v"
      [] ch = "H" -> "h" [] ch = "D" -> "d" [] ch = "K" -> "k"
      [] ch = "A" -> "a" [] OTHER -> ch

AlnumChars == {"p", "r", "o", "t", "v", "h", "d", "i", "g", "2", "4"}

\* lines 138-143: lower-case, then drop every character outside [a-z0-9]
NormalizeChannelName(name) ==
    SelectSeq([i \in 1..Len(name) |-> LowerChar(name[i])], LAMBDA ch : ch \in AlnumChars)

\* lines 146-158
ChannelNamesMatch_EqualOnly(name1, name2) ==
    NormalizeChannelName(name1) = NormalizeChannelName(name2)

ChannelNamesMatch(name1, name2) ==
    LET n1 == NormalizeChannelName(name1)
        n2 == NormalizeChannelName(name2)
    IN  n1 = n2 \/ Includes(n1, n2) \/ Includes(n2, n1)

\* the characters names are drawn from: upper and lower case letters, a
\* digit, a space and a sign
NameChars == {"P", "T", "v", "2", " ", "+"}
Names == SeqsUpTo(NameChars, MaxNameLen)

NoMatchCall == [pc |-> "idle", name1 |-> <<>>, name2 |-> <<>>,
                result |-> FALSE, swapped |-> FALSE]

\* lines 146-158 run on (name1, name2) and on (name2, name1)
MatchNames ==
    /\ nm.pc = "called"
    /\ nm' = [nm EXCEPT !.pc = "returned",
                        !.result = ChannelNamesMatch(nm.name1, nm.name2),
                        !.swapped = ChannelNamesMatch(nm.name2, nm.name1)]

COUNTRY == "RO"

\* one channel record of the catalog: curated ones carry the absorbed ids
Channel(id, name, country, curated, ids) ==
    [id |-> id, name |-> name, country |-> country, curated |-> curated,
     iptvOrgChannelIds |-> ids]

\* channels.json entries, and snapshots of it that list an entry once
RegistryChannels ==
    {Channel("r1", N_ProTV, "RO", FALSE, <<>>), Channel("r2", N_Digi24, "RO", FALSE, <<>>),
     Channel("r1", N_Digi24, "RO", FALSE, <<>>), Channel("r2", N_ProTV, "HU", FALSE, <<>>)}
ChannelSnapshots ==
    {s \in SeqsUpTo(RegistryChannels, MaxRegistry) :
        \A i, j \in 1..Len(s) : i # j => s[i] # s[j]}

\* the etag header of streams.json, "" when there is none
ETags == {"", "e1"}

\* answers to GET streams.json: the entries and the etag header
StreamsAnswers == {[data |-> <<>>, etag |-> ""],
                   [data |-> <<[channel |-> "r1", url |-> U_cdn],
                               [channel |-> "r2", url |-> U_seg]>>, etag |-> "e1"]}

\* custom-channels.json: the curated channels and the exclusion list
C_ProTVHD == Channel("c1", N_ProTVHD, "", TRUE, <<>>)
C_TV    == Channel("c2", N_TV, "", TRUE, <<>>)
C_Plus  == Channel("c2", N_Plus, "", TRUE, <<>>)
\* a curated channel whose id is also the id of a registry channel
C_Own   == Channel("r2", N_ProTVHD, "", TRUE, <<>>)
\* the contents of custom-channels.json: the channels and _config
CustomConfigs ==
    {[channels |-> <<>>, excludeIptvChannelIds |-> {}],
     [channels |-> <<C_Own>>, excludeIptvChannelIds |-> {"r1"}],
     [channels |-> <<C_TV, C_ProTVHD>>, excludeIptvChannelIds |-> {"r1"}],
     [channels |-> <<C_Plus>>, excludeIptvChannelIds |-> {}]}

\* line 188
RomanianChannels(channels) == SelectSeq(channels, LAMBDA c : c.country = COUNTRY)

\* lines 196-204: a curated channel takes the ids of the registry channels whose
\* name matches; with no match its iptvOrgChannelIds is left as it was
Absorb(customChannel, romanianChannels) ==
    LET matching == SelectSeq(romanianChannels,
                        LAMBDA ch : ChannelNamesMatch(customChannel.name, ch.name))
    IN  IF Len(matching) > 0
        THEN [customChannel EXCEPT
                !.iptvOrgChannelIds = [i \in 1..Len(matching) |-> matching[i].id]]
        ELSE customChannel

\* lines 206-218: the registry channels that stay in the catalog
SurvivingChannels_NoExclusion(custom, romanianChannels, excluded) ==
    SelectSeq(romanianChannels,
        LAMBDA ch : ~\E i \in 1..Len(custom) : ChannelNamesMatch(custom[i].name, ch.name))

SurvivingChannels(custom, romanianChannels, excluded) ==
    SelectSeq(romanianChannels,
        LAMBDA ch :
            /\ ch.id \notin excluded
            /\ ~\E i \in 1..Len(custom) : ChannelNamesMatch(custom[i].name, ch.name))

\* lines 192-224
AllChannels(enabled, custom, romanianChannels, excluded) ==
    IF enabled
    THEN [i \in 1..Len(custom) |-> Absorb(custom[i], romanianChannels)]
         \o SurvivingChannels(custom, romanianChannels, excluded)
    ELSE romanianChannels

NoCache == [has |-> FALSE, channels |-> <<>>, streams |-> <<>>, registry |-> <<>>]

\* a getData call: where it is, and how the last call of this caller ended:
\* "cache" is the `return cache` of lines 172 and 232, "stale" the one of
\* line 175 (the probe failed), "rejected" a rejected promise
NoGet == [pc |-> "idle", result |-> "none"]

\* the results with which getData returned the cache object
ReturnedCache == {"cache", "stale"}

\* lines 160-165, 179-182: getData up to its first await
GetData(c) ==
    /\ gd[c].pc = "idle"
    /\ gd' = [gd EXCEPT ![c] = [pc |-> IF cache.has /\ now - lastFetch < TTL
                                        THEN "head" ELSE "get",
                                 result |-> "none"]]
    /\ UNCHANGED <<customChannels, excludeIptvChannelIds, enableCustomChannels, cache,
                   lastFetch, lastETag>>

\* lines 166-173: the HEAD of streams.json answered
HeadAnswer(c, etag) ==
    /\ gd[c].pc = "head"
    /\ IF etag # "" /\ etag # lastETag
       THEN gd' = [gd EXCEPT ![c].pc = "get"]
       ELSE gd' = [gd EXCEPT ![c] = [pc |-> "idle", result |-> "cache"]]
    /\ UNCHANGED <<customChannels, excludeIptvChannelIds, enableCustomChannels, cache,
                   lastFetch, lastETag>>

\* lines 174-176: the HEAD failed
HeadError_Rejects(c) ==
    /\ gd[c].pc = "head"
    /\ gd' = [gd EXCEPT ![c] = [pc |-> "idle", result |-> "rejected"]]
    /\ UNCHANGED <<customChannels, excludeIptvChannelIds, enableCustomChannels, cache,
                   lastFetch, lastETag>>

HeadError(c) ==
    /\ gd[c].pc = "head"
    /\ gd' = [gd EXCEPT ![c] = [pc |-> "idle", result |-> "stale"]]
    /\ UNCHANGED <<customChannels, excludeIptvChannelIds, enableCustomChannels, cache,
                   lastFetch, lastETag>>

\* lines 184-232: both GETs answered
GetAnswer_KeepsTag(c, channels, streamsRes) ==
    /\ gd[c].pc = "get"
    /\ LET romanianChannels == RomanianChannels(channels)
           merged == [has |-> TRUE,
                      channels |-> AllChannels(enableCustomChannels, customChannels,
                                               romanianChannels, excludeIptvChannelIds),
                      streams |-> streamsRes.data,
                      registry |-> romanianChannels]
       IN  /\ lastETag' = IF cache.has THEN lastETag ELSE streamsRes.etag
           /\ customChannels' =
                IF enableCustomChannels
                THEN SubSeq(merged.channels, 1, Len(customChannels))
                ELSE customChannels
           /\ cache' = merged
           /\ lastFetch' = now
           /\ gd' = [gd EXCEPT ![c] = [pc |-> "idle", result |-> "cache"]]
    /\ UNCHANGED <<excludeIptvChannelIds, enableCustomChannels>>

GetAnswer(c, channels, streamsRes) ==
    /\ gd[c].pc = "get"
    /\ LET romanianChannels == RomanianChannels(channels)
           merged == [has |-> TRUE,
                      channels |-> AllChannels(enableCustomChannels, customChannels,
                                               romanianChannels, excludeIptvChannelIds),
                      streams |-> streamsRes.data,
                      registry |-> romanianChannels]
       IN  /\ lastETag' = streamsRes.etag
           \* the curated records of allChannels are the customChannels objects
           /\ customChannels' =
                IF enableCustomChannels
                THEN SubSeq(merged.channels, 1, Len(customChannels))
                ELSE customChannels
           /\ cache' = merged
           /\ lastFetch' = now
           /\ gd' = [gd EXCEPT ![c] = [pc |-> "idle", result |-> "cache"]]
    /\ UNCHANGED <<excludeIptvChannelIds, enableCustomChannels>>

\* line 179: one of the GETs failed, getData rejects
GetError_MarksFetched(c) ==
    /\ gd[c].pc = "get"
    /\ gd' = [gd EXCEPT ![c] = [pc |-> "idle", result |-> "rejected"]]
    /\ cache' = [cache EXCEPT !.has = TRUE]
    /\ UNCHANGED <<customChannels, excludeIptvChannelIds, enableCustomChannels,
                   lastFetch, lastETag>>

GetError(c) ==
    /\ gd[c].pc = "get"
    /\ gd' = [gd EXCEPT ![c] = [pc |-> "idle", result |-> "rejected"]]
    /\ UNCHANGED <<customChannels, excludeIptvChannelIds, enableCustomChannels, cache,
                   lastFetch, lastETag>>

DataTick ==
    /\ now + DataTickMs <= MaxDataTicks * DataTickMs
    /\ now' = now + DataTickMs

(***************************************************************************)
(* /stream: the stream router                                              *)
(***************************************************************************)
\* String.prototype.includes of a domain, on the atoms of a URL
ContainsDomain(s, d) == \E i \in 1..Len(s) : d \in HostSubstrings(s[i])

\* line 440: source.url.includes('ivanturbinca.com/hls-proxy.php')
ContainsProxyScript(s) ==
    \E i \in 1..(Len(s) - 2) :
        /\ "ivanturbinca.com" \in HostSubstrings(s[i])
        /\ s[i + 1] = "/" /\ s[i + 2] = "hls-proxy.php"

\* lines 248-264
StreamNeedsProxy_ExactHost(url) ==
    IF ~ParsesAsUrl(url) THEN TRUE
    ELSE \/ Hostname(url) = "ivanturbinca.com"
         \/ Hostname(url) = "magicplaces.eu"
         \/ Includes(url, <<"hls-proxy.php">>)

StreamNeedsProxy(url) ==
    IF ~ParsesAsUrl(url) THEN TRUE
    ELSE \/ "ivanturbinca.com" \in HostSubstrings(Hostname(url))
         \/ "magicplaces.eu" \in HostSubstrings(Hostname(url))
         \/ Includes(url, <<"hls-proxy.php">>)

\* line 444: urlObj.searchParams.get('src'): the value of the first src
\* parameter of the query, percent-decoded (a malformed escape is kept as it
\* is), <<>> when there is none
SearchParamSrc(url) ==
    LET qs == {i \in 1..Len(url) : url[i] = "?"}
        q  == IF qs = {} THEN <<>>
              ELSE SubSeq(url, (CHOOSE i \in qs : \A j \in qs : i <= j) + 1, Len(url))
        at == {i \in 1..(Len(q) - 1) :
                    q[i] = "src" /\ q[i + 1] = "=" /\ (i = 1 \/ q[i - 1] = "&")}
    IN  IF at = {} THEN <<>>
        ELSE LET b   == (CHOOSE i \in at : \A j \in at : i <= j) + 2
                 amp == {i \in b..Len(q) : q[i] = "&"}
                 e   == IF amp = {} THEN Len(q)
                        ELSE (CHOOSE i \in amp : \A j \in amp : i <= j) - 1
                 raw == SubSeq(q, b, e)
             IN  IF DecodeURIComponent(raw).ok THEN DecodeURIComponent(raw).v ELSE raw

\* lines 440-461: the relay URL of one curated source
SourceRelayUrl_NoTokenPlaylist(url) ==
    IF ContainsDomain(url, "ivanturbinca.com")
    THEN ExtPrefix \o EncodeURIComponent(url)
    ELSE HlsPrefix \o EncodeURIComponent(url)

SourceRelayUrl(url) ==
    IF ContainsProxyScript(url)
    THEN IF /\ ParsesAsUrl(url)
            /\ SearchParamSrc(url) # <<>>
            /\ ContainsDomain(SearchParamSrc(url), "magicplaces.eu")
         THEN TpPrefix \o EncodeURIComponent(SearchParamSrc(url))
         ELSE ExtPrefix \o EncodeURIComponent(url)
    ELSE IF ContainsDomain(url, "ivanturbinca.com")
         THEN ExtPrefix \o EncodeURIComponent(url)
         ELSE HlsPrefix \o EncodeURIComponent(url)

\* `x || d` on a string, "" standing for a missing property
OrDefault(x, d) == IF x = "" THEN d ELSE x

\* lines 463-470: the descriptor of one curated source
SourceObject(source) ==
    [url |-> SourceRelayUrl(source.url),
     title |-> OrDefault(source.name, "Live"),
     name |-> OrDefault(source.name, "Live")]

\* line 440: source.url.includes(...) throws a TypeError when the source has
\* no url property
SourceThrows(source) == "url" \in source.absent

\* lines 482-495, 507-520: the descriptor of one streams.json entry
RegistryStreamObject(stream, feed) ==
    [url |-> IF StreamNeedsProxy(stream.url)
             THEN HlsPrefix \o EncodeURIComponent(stream.url)
             ELSE stream.url,
     title |-> OrDefault(stream.title, feed),
     name |-> OrDefault(stream.title, feed)]

\* lines 479, 504: streams.filter(s => s.channel === id), then map
RegistryStreamObjects(streams, id, feed) ==
    LET matching == SelectSeq(streams, LAMBDA e : e.channel = id)
    IN  [i \in 1..Len(matching) |-> RegistryStreamObject(matching[i], feed)]

\* line 426: channels.find(c => c.id === channelId), <<>> for undefined
FindChannel(channels, channelId) ==
    LET at == {i \in 1..Len(channels) : <<channels[i].id>> = channelId}
    IN  IF at = {} THEN <<>>
        ELSE <<channels[CHOOSE i \in at : \A j \in at : i <= j]>>

\* lines 433-524: allStreams of a channel none of whose sources throws
StreamObjects_RegistryFirst(channel, streams) ==
    LET ids    == channel.iptvOrgChannelIds
        custom == IF "sources" \notin channel.absent
                  THEN [i \in 1..Len(channel.sources) |-> SourceObject(channel.sources[i])]
                  ELSE <<>>
        merged == IF "iptvOrgChannelIds" \notin channel.absent
                  THEN Concat([k \in 1..Len(ids) |->
                                  RegistryStreamObjects(streams, ids[k], "IPTV")])
                  ELSE <<>>
        direct == IF {"sources", "iptvOrgChannelIds"} \subseteq channel.absent
                  THEN RegistryStreamObjects(streams, channel.id, "Live")
                  ELSE <<>>
    IN  merged \o custom \o direct

StreamObjects(channel, streams) ==
    LET ids    == channel.iptvOrgChannelIds
        custom == IF "sources" \notin channel.absent
                  THEN [i \in 1..Len(channel.sources) |-> SourceObject(channel.sources[i])]
                  ELSE <<>>
        merged == IF "iptvOrgChannelIds" \notin channel.absent
                  THEN Concat([k \in 1..Len(ids) |->
                                  RegistryStreamObjects(streams, ids[k], "IPTV")])
                  ELSE <<>>
        direct == IF {"sources", "iptvOrgChannelIds"} \subseteq channel.absent
                  THEN RegistryStreamObjects(streams, channel.id, "Live")
                  ELSE <<>>
    IN  custom \o merged \o direct

\* lines 426-531, after getData() resolved: what the handler ends with. A
\* throw inside the async handler rejects its promise, which Express 4 does
\* not observe: no response is sent.
StreamAnswer_UnknownIs404(channels, streams, channelId) ==
    LET found == FindChannel(channels, channelId)
    IN  IF found = <<>>
        THEN [pc |-> "done", status |-> 404, streams |-> <<>>, error |-> "Not found"]
        ELSE [pc |-> "done", status |-> 200,
              streams |-> StreamObjects(found[1], streams), error |-> ""]

StreamAnswer(channels, streams, channelId) ==
    LET found == FindChannel(channels, channelId)
    IN  IF found = <<>>
        THEN [pc |-> "done", status |-> 200, streams |-> <<>>, error |-> ""]
        ELSE IF /\ "sources" \notin found[1].absent
                /\ \E i \in 1..Len(found[1].sources) : SourceThrows(found[1].sources[i])
        THEN [pc |-> "unanswered", status |-> 0, streams |-> <<>>, error |-> "TypeError"]
        ELSE [pc |-> "done", status |-> 200,
              streams |-> StreamObjects(found[1], streams), error |-> ""]

\* a curated source of custom-channels.json
Source(name, url) == [name |-> name, url |-> url, absent |-> {}]

\* a channel of the merged catalog with the properties the router reads;
\* absent names the properties the channel object does not have
CatalogChannel(id, curated, sources, ids, absent) ==
    [id |-> id, curated |-> curated, sources |-> sources, iptvOrgChannelIds |-> ids,
     absent |-> absent]

U_tok      == <<"https", ":", "/", "/", "ivanturbinca.com", "/", "hls-proxy.php", "?", "src",
                "=">> \o EncodeURIComponent(U_ch1)
U_noscheme == <<"ivanturbinca.com", "/", "hls-proxy.php", "?", "src", "=">>
                \o EncodeURIComponent(U_ch1)
U_itv      == <<"https", ":", "/", "/", "ivanturbinca.com", "/", "live", "/", "ch", ".m3u8">>
U_sub      == <<"https", ":", "/", "/", "s1.magicplaces.eu", "/", "ch1", "/", "video", ".m3u8">>
U_cdnphp   == <<"https", ":", "/", "/", "cdn.example", "/", "hls-proxy.php", "?", "src", "=",
                "x">>

\* curated channels: all four kinds of source and two absorbed ids; a source
\* without url between two good ones; no sources and no absorbed ids; absorbed
\* ids only; an empty sources array
K_full  == CatalogChannel("c1", TRUE,
               <<Source("s1", U_tok), Source("s2", U_php), Source("s3", U_noscheme),
                 Source("s4", U_cdn)>>,
               <<"r2", "r1">>, {})
K_bad   == CatalogChannel("c2", TRUE,
               <<Source("s5", U_cdn), [name |-> "s6", url |-> <<>>, absent |-> {"url"}],
                 Source("s7", U_itv)>>,
               <<>>, {"iptvOrgChannelIds"})
K_none  == CatalogChannel("c3", TRUE, <<>>, <<>>, {"sources", "iptvOrgChannelIds"})
K_ids   == CatalogChannel("c4", TRUE, <<>>, <<"r1">>, {"sources"})
K_nosrc == CatalogChannel("c5", TRUE, <<>>, <<>>, {"iptvOrgChannelIds"})
\* registry channels of the catalog
R_3     == CatalogChannel("r3", FALSE, <<>>, <<>>, {"sources", "iptvOrgChannelIds"})
R_4     == CatalogChannel("r4", FALSE, <<>>, <<>>, {"sources", "iptvOrgChannelIds"})

StreamEntry(channel, url, title) == [channel |-> channel, url |-> url, title |-> title]

\* what getData() can resolve with: the merged catalog, streams.json and its etag
CatalogSnapshots ==
    {[channels |-> <<K_full, K_bad, K_none, K_ids, K_nosrc, R_3, R_4>>,
      streams  |-> <<StreamEntry("r1", U_sub, "t1"), StreamEntry("r2", U_cdn, "t2"),
                     StreamEntry("r1", U_cdnphp, "t3"), StreamEntry("r3", U_itv, "t4"),
                     StreamEntry("r3", U_rel, "t5"), StreamEntry("c5", U_cdn, "t6")>>,
      etag     |-> "e1"],
     [channels |-> <<K_ids, R_3>>,
      streams  |-> <<StreamEntry("r3", U_cdn, "t4")>>,
      etag     |-> ""]}

\* req.params.id of the requests
RawIds == {<<"rotv-", id>> : id \in {"c1", "c2", "c3", "c4", "c5", "r3", "r4", "zz"}}
            \cup {<<"c1">>}

\* line 421: String.prototype.replace removes the first 'rotv-'
RemoveFirst(raw, a) ==
    LET at == {i \in 1..Len(raw) : raw[i] = a}
    IN  IF at = {} THEN raw
        ELSE LET k == CHOOSE i \in at : \A j \in at : i <= j
             IN  SubSeq(raw, 1, k - 1) \o SubSeq(raw, k + 1, Len(raw))

NoAnswer == [id |-> <<>>, channels |-> <<>>, streams |-> <<>>, answer |-> <<>>]

\* prev: the latest answered request before this one, with the catalog it was
\* answered from
NoStreamRequest == [pc |-> "idle", id |-> <<>>, status |-> 0, streams |-> <<>>,
                    error |-> "", prev |-> NoAnswer]

LastAnswer(r) ==
    IF r.pc = "done"
    THEN [id |-> r.id, channels |-> cache.channels, streams |-> cache.streams,
          answer |-> r.streams]
    ELSE r.prev

\* lines 420-423: the request arrives and getData() is awaited
StreamRequest(raw) ==
    /\ sr.pc \in {"idle", "done", "unanswered"}
    /\ sr' = [NoStreamRequest EXCEPT !.pc = "data", !.id = RemoveFirst(raw, "rotv-"),
                                     !.prev = LastAnswer(sr)]
    /\ UNCHANGED <<cache, lastFetch, lastETag>>

StreamFinish(a) ==
    sr' = [sr EXCEPT !.pc = a.pc, !.status = a.status, !.streams = a.streams,
                     !.error = a.error]

\* lines 162-177, then 426-531: getData() resolved with the cache as it is
\* (within the TTL and not modified, or the probe failed)
StreamDataCached ==
    /\ sr.pc = "data"
    /\ cache.has
    /\ StreamFinish(StreamAnswer(cache.channels, cache.streams, sr.id))
    /\ UNCHANGED <<cache, lastFetch, lastETag>>

\* lines 179-232, then 426-531: getData() fetched and merged a new catalog
StreamDataFetched(snapshot) ==
    /\ sr.pc = "data"
    /\ cache' = [has |-> TRUE, channels |-> snapshot.channels,
                 streams |-> snapshot.streams, registry |-> <<>>]
    /\ lastFetch' = now
    /\ lastETag' = snapshot.etag
    /\ StreamFinish(StreamAnswer(snapshot.channels, snapshot.streams, sr.id))

\* lines 179-182: the GETs failed; the rejection of getData() leaves the
\* handler at line 423 and no response is sent
StreamDataRejected ==
    /\ sr.pc = "data"
    /\ sr' = [sr EXCEPT !.pc = "unanswered", !.error = "DataUnavailable"]
    /\ UNCHANGED <<cache, lastFetch, lastETag>>

(***************************************************************************)
(* Catalog pages (/catalog)                                                *)
(***************************************************************************)
\* lines 19-28
PRIORITY_CHANNELS ==
    << <<"p", "r", "o", " ", "t", "v">>,
       <<"a", "n", "t", "e", "n", "a", " ", "1">>,
       <<"d", "i", "s", "c", "o", "v", "e", "r", "y">>,
       <<"n", "a", "t", "i", "o", "n", "a", "l", " ",
         "g", "e", "o", "g", "r", "a", "p", "h", "i", "c">>,
       <<"e", "u", "r", "o", "s", "p", "o", "r", "t", " ", "1">>,
       <<"d", "i", "g", "i", " ", "2", "4">>,
       <<"e", "u", "r", "o", "n", "e", "w", "s", " ", "r", "o", "m", "a", "n", "i", "a">>,
       <<"k", "i", "s", "s", " ", "t", "v">> >>

\* String.prototype.toLowerCase
ToLowerCase(s) == [i \in 1..Len(s) |-> LowerChar(s[i])]

\* lines 377-379: PRIORITY_CHANNELS.some(...)
IsPriority(c) ==
    \E p \in 1..Len(PRIORITY_CHANNELS) :
        Includes(ToLowerCase(c.name), ToLowerCase(PRIORITY_CHANNELS[p]))

\* lines 383-384: PRIORITY_CHANNELS.findIndex(...), -1 where nothing is found
PriorityIndex(c) ==
    LET found == {p \in 1..Len(PRIORITY_CHANNELS) :
                    Includes(ToLowerCase(c.name), ToLowerCase(PRIORITY_CHANNELS[p]))}
    IN  IF found = {} THEN -1
        ELSE (CHOOSE p \in found : \A q \in found : p <= q) - 1

\* lines 382-386: Array.prototype.sort is stable; the channels of index k in
\* their order, for k = -1, 0, 1, ...
RECURSIVE SortByPriority(_, _)
SortByPriority(results, k) ==
    IF k >= Len(PRIORITY_CHANNELS) THEN <<>>
    ELSE SelectSeq(results, LAMBDA c : PriorityIndex(c) = k)
            \o SortByPriority(results, k + 1)

\* lines 358-360
HasAvailableStreams(c, streams) ==
    Len(c.sources) > 0 \/ \E k \in 1..Len(streams) : streams[k].channel = c.id

\* line 355: parseInt(params.skip) || 0
SkipOf(param) ==
    CASE param = "20" -> 20 [] param = "-1" -> -1 [] OTHER -> 0

\* lines 387-393: the "see all" page
SeeAllPage_KeepsPriority(results) == results

SeeAllPage(results) == SelectSeq(results, LAMBDA c : ~IsPriority(c))

\* lines 355-394: the channels of the answer
CatalogResults(channels, streams, params) ==
    LET skip     == SkipOf(params.skip)
        eligible == SelectSeq(channels, LAMBDA c : HasAvailableStreams(c, streams))
        ofGenre  == IF params.genre = "" THEN eligible
                    ELSE SelectSeq(eligible, LAMBDA c : params.genre \in c.categories)
        results  == IF params.search = <<>> THEN ofGenre
                    ELSE SelectSeq(ofGenre, LAMBDA c :
                            Includes(ToLowerCase(c.name), ToLowerCase(params.search)))
        unfiltered == params.search = <<>> /\ params.genre = ""
    IN  IF skip = 0 /\ unfiltered
        THEN SortByPriority(SelectSeq(results, IsPriority), -1)
        ELSE IF skip > 0 /\ unfiltered
        THEN SeeAllPage(results)
        ELSE results

\* lines 306-314: toMeta
ToMeta(c) == [id |-> <<"rotv-", c.id>>, name |-> c.name]

Listing(id, name, sources, categories) ==
    [id |-> id, name |-> name, sources |-> sources, categories |-> categories]

N_KissTV == <<"K", "i", "s", "s", " ", "T", "V">>
N_Antena == <<"A", "n", "t", "e", "n", "a", " ", "1", " ", "H", "D">>

G_kiss    == Listing("c1", N_KissTV, <<Source("s1", U_cdn)>>, {"music"})
G_protvhd == Listing("c2", N_ProTVHD, <<Source("s1", U_cdn)>>, {})
G_protv   == Listing("r1", N_ProTV, <<>>, {"general"})
G_digi    == Listing("r2", N_Digi24, <<>>, {"news"})
G_antena  == Listing("r3", N_Antena, <<>>, {"general"})
G_dark    == Listing("r4", N_TV, <<>>, {})

\* the values getData() resolves with
CatalogData ==
    {[channels |-> <<G_kiss, G_protvhd, G_digi, G_antena, G_protv, G_dark>>,
      streams |-> <<[channel |-> "r1"], [channel |-> "r2"], [channel |-> "r3"]>>],
     [channels |-> <<G_kiss, G_digi, G_protv, G_dark>>,
      streams |-> <<[channel |-> "r2"]>>],
     [channels |-> <<G_digi, G_dark>>, streams |-> <<[channel |-> "r2"]>>]}

\* req.params.extra, parsed (line 353)
CatalogParams ==
    [skip : {"", "0", "20", "-1", "abc"}, search : {<<>>, <<"P", "r", "o">>},
     genre : {"", "general"}]

NoPage == [known |-> FALSE, channels |-> <<>>]

NoCatalogRequest ==
    [pc |-> "idle", params |-> [skip |-> "", search |-> <<>>, genre |-> ""],
     data |-> [channels |-> <<>>, streams |-> <<>>], metas |-> <<>>,
     first |-> NoPage, rest |-> NoPage]

\* lines 352-354: the request arrives and getData() is awaited
CatalogRequest(params) ==
    /\ cat.pc \in {"idle", "done", "unanswered"}
    /\ cat' = [cat EXCEPT !.pc = "data", !.params = params, !.metas = <<>>]

\* lines 355-400: getData() resolved with data; the page is computed and
\* sent.  first and rest remember the unfiltered pages answered for data.
CatalogAnswer(data) ==
    /\ cat.pc = "data"
    /\ LET results    == CatalogResults(data.channels, data.streams, cat.params)
           unfiltered == cat.params.search = <<>> /\ cat.params.genre = ""
           skip       == SkipOf(cat.params.skip)
           page       == [known |-> TRUE, channels |-> results]
           first      == IF data = cat.data THEN cat.first ELSE NoPage
           rest       == IF data = cat.data THEN cat.rest ELSE NoPage
       IN  cat' = [cat EXCEPT
                !.pc = "done", !.data = data,
                !.metas = [i \in 1..Len(results) |-> ToMeta(results[i])],
                !.first = IF unfiltered /\ skip = 0 THEN page ELSE first,
                !.rest = IF unfiltered /\ skip > 0 THEN page ELSE rest]

\* lines 354, 398: getData() or toMeta() rejected; the handler has no catch
\* and no response is sent
CatalogRejected ==
    /\ cat.pc = "data"
    /\ cat' = [cat EXCEPT !.pc = "unanswered"]

(***************************************************************************)
(* Poster warmup script (src/unnamed/part_000)                             *)
(***************************************************************************)
DELAY_MS == 1500
MAX_RETRIES == 3
RETRY_DELAY_MS == 5000

\* channelsToProcess, by position
PosterChannels == 1..NumPosterChannels

\* what a failed download answered with; 0 is an error without a response
DownloadFailures == {429, 404, 0}

NoWarmup ==
    [pc |-> "idle", i |-> 0, files |-> {}, existed |-> FALSE, attempt |-> 0,
     downloads |-> 0, lastStatus |-> 0, lastError |-> "", waiting |-> 0, waited |-> 0,
     result |-> "", paused |-> 0, stats |-> [generated |-> 0, skipped |-> 0, failed |-> 0]]

\* lines 170-236: main starts; existing are the channels whose poster file
\* is in POSTERS_DIR already
WarmupStart(existing) ==
    /\ wu.pc = "idle"
    /\ wu' = [NoWarmup EXCEPT !.pc = "loop", !.i = 1, !.files = existing]

\* lines 244, 108-118: generatePoster is called for the next channel
GeneratePoster ==
    /\ wu.pc = "loop"
    /\ wu.i \in PosterChannels
    /\ IF wu.i \in wu.files
       THEN wu' = [wu EXCEPT !.pc = "returned", !.existed = TRUE, !.attempt = 0,
                             !.downloads = 0, !.lastStatus = 0, !.lastError = "",
                             !.waiting = 0,
                             !.waited = 0, !.result = "skipped"]
       ELSE wu' = [wu EXCEPT !.pc = "download", !.existed = FALSE, !.attempt = 1,
                             !.downloads = 0, !.lastStatus = 0, !.lastError = "",
                             !.waiting = 0,
                             !.waited = 0, !.result = ""]

\* lines 121-129: the logo arrived
DownloadOk ==
    /\ wu.pc = "download"
    /\ wu' = [wu EXCEPT !.pc = "process", !.downloads = @ + 1]

\* lines 150-163: the download failed with status
DownloadFail(status) ==
    /\ wu.pc = "download"
    /\ IF status = 429 /\ wu.attempt < MAX_RETRIES
       THEN wu' = [wu EXCEPT !.pc = "sleep", !.downloads = @ + 1, !.lastStatus = status,
                             !.lastError = "download",
                             !.waiting = RETRY_DELAY_MS * wu.attempt]
       ELSE wu' = [wu EXCEPT !.pc = "returned", !.downloads = @ + 1,
                             !.lastStatus = status, !.lastError = "download",
                             !.result = "failed"]

\* lines 157-158, 118: the wait is over, the next attempt starts
RetrySleepDone ==
    /\ wu.pc = "sleep"
    /\ wu' = [wu EXCEPT !.pc = "download", !.attempt = @ + 1, !.waited = wu.waiting,
                        !.waiting = 0]

\* lines 132-145: sharp built the poster image
ProcessOk ==
    /\ wu.pc = "process"
    /\ wu' = [wu EXCEPT !.pc = "write"]

\* lines 132-145, 150-166: sharp threw
ProcessFail ==
    /\ wu.pc = "process"
    /\ wu' = [wu EXCEPT !.pc = "returned", !.lastStatus = 0, !.lastError = "sharp",
                        !.result = "failed"]

\* lines 147-148
WriteOk ==
    /\ wu.pc = "write"
    /\ wu' = [wu EXCEPT !.pc = "returned", !.files = @ \cup {wu.i},
                        !.result = "generated"]

\* lines 147, 150-166: writeFileSync threw; it opens (creates) the file
\* before it writes, so the file is left behind when the failure is in the
\* writing (created) and not when it is in the opening
WriteFail(created) ==
    /\ wu.pc = "write"
    /\ wu' = [wu EXCEPT !.pc = "returned", !.lastStatus = 0, !.lastError = "write",
                        !.result = "failed",
                        !.files = IF created THEN @ \cup {wu.i} ELSE @]

\* lines 246-262: main counts the result, waits and goes on
WarmupTally ==
    /\ wu.pc = "returned"
    /\ wu' = [wu EXCEPT !.pc = "loop", !.i = @ + 1,
                        !.stats[wu.result] = @ + 1,
                        !.paused = IF wu.result = "skipped" THEN 0 ELSE DELAY_MS]

\* line 238: the loop is over
WarmupEnd ==
    /\ wu.pc = "loop"
    /\ wu.i \notin PosterChannels
    /\ wu' = [wu EXCEPT !.pc = "exit"]

(***************************************************************************)
(* Specifications                                                          *)
(***************************************************************************)
InitToken ==
    /\ now = 0
    /\ tokenCache = <<>>
    /\ gvt = [c \in Callers |-> NoCall]
    /\ tokenRequests = 0
    /\ lastCall = <<>>
    /\ storedSince = FALSE

InitHls == hls = NoHls

InitTp == tp = NoTp

InitExt == ext = NoExt

\* lines 31-54, 64-66: custom-channels.json as loaded at start-up, empty cache
InitData ==
    /\ enableCustomChannels \in BOOLEAN
    /\ \E parsed \in (IF enableCustomChannels THEN CustomConfigs
                      ELSE {[channels |-> <<>>, excludeIptvChannelIds |-> {}]}) :
            /\ customChannels = parsed.channels
            /\ excludeIptvChannelIds = parsed.excludeIptvChannelIds
    /\ cache = NoCache
    /\ lastFetch = 0
    /\ lastETag = ""
    /\ gd = [c \in Getters |-> NoGet]

\* no custom-channels.json
InitNoCustom ==
    /\ enableCustomChannels = TRUE
    /\ customChannels = <<>>
    /\ excludeIptvChannelIds = {}
    /\ cache = NoCache
    /\ lastFetch = 0
    /\ lastETag = ""
    /\ gd = [c \in Getters |-> NoGet]

InitMatch == nm = NoMatchCall

InitRouter == sr = NoStreamRequest

InitPages == cat = NoCatalogRequest /\ wu = NoWarmup

Init == InitToken /\ InitHls /\ InitTp /\ InitExt /\ InitNoCustom /\ InitMatch /\ InitRouter /\ InitPages

InitWithCustom ==
    InitToken /\ InitHls /\ InitTp /\ InitExt /\ InitData /\ InitMatch /\ InitRouter /\ InitPages

\* channelNamesMatch about to be called on two names
InitNames ==
    /\ InitToken /\ InitHls /\ InitTp /\ InitExt /\ InitNoCustom /\ InitRouter /\ InitPages
    /\ nm \in {[pc |-> "called", name1 |-> a, name2 |-> b,
                 result |-> FALSE, swapped |-> FALSE] : a \in Names, b \in Names}

NextToken ==
    \/ \E c \in Callers, k \in TokenKeys : GetValidToken(c, k) /\ UNCHANGED <<relayVars, dataVars, matchVars, routerVars, pageVars>>
    \/ \E c \in Callers : \E d \in OriginAnswers(now) :
            FetchTokenAnswer(c, d) /\ UNCHANGED <<relayVars, dataVars, matchVars, routerVars, pageVars>>
    \/ \E c \in Callers : FetchTokenError(c) /\ UNCHANGED <<relayVars, dataVars, matchVars, routerVars, pageVars>>
    \/ \E c \in Callers : CallerDone(c) /\ UNCHANGED <<relayVars, dataVars, matchVars, routerVars, pageVars>>
    \/ Tick /\ UNCHANGED <<relayVars, dataVars, matchVars, routerVars, pageVars>>

SpecToken == Init /\ [][NextToken]_vars


NextHls ==
    \/ \E u \in HlsTargets : HlsRequest(u) /\ UNCHANGED <<tokenVars, tp, ext, dataVars, matchVars, routerVars, pageVars>>
    \/ \E r \in ResponseUrls, ct \in ContentTypes, b \in HlsBodies :
            HlsUpstreamOk(r, ct, b) /\ UNCHANGED <<tokenVars, tp, ext, dataVars, matchVars, routerVars, pageVars>>
    \/ \E code \in UpstreamFailures, st \in UpstreamErrorStatuses :
            HlsUpstreamFail(code, st) /\ UNCHANGED <<tokenVars, tp, ext, dataVars, matchVars, routerVars, pageVars>>
    \/ HlsData /\ UNCHANGED <<tokenVars, tp, ext, dataVars, matchVars, routerVars, pageVars>>
    \/ HlsEnd /\ UNCHANGED <<tokenVars, tp, ext, dataVars, matchVars, routerVars, pageVars>>
    \/ HlsPipeChunk /\ UNCHANGED <<tokenVars, tp, ext, dataVars, matchVars, routerVars, pageVars>>
    \/ HlsPipeEnd /\ UNCHANGED <<tokenVars, tp, ext, dataVars, matchVars, routerVars, pageVars>>
    \/ HlsStreamError /\ UNCHANGED <<tokenVars, tp, ext, dataVars, matchVars, routerVars, pageVars>>

SpecHls == Init /\ [][NextHls]_vars

\* /hls-proxy with a client that may close its connection before the answer
NextHlsClient ==
    \/ NextHls
    \/ HlsClientClose /\ UNCHANGED <<tokenVars, tp, ext, dataVars, matchVars, routerVars, pageVars>>

NextTp ==
    \/ \E u \in TpTargets : TpRequest(u) /\ UNCHANGED <<hls, ext, dataVars, matchVars, routerVars, pageVars>>
    \/ \E d \in OriginAnswers(now) :
            FetchTokenAnswer(TpCaller, d) /\ UNCHANGED <<relayVars, dataVars, matchVars, routerVars, pageVars>>
    \/ FetchTokenError(TpCaller) /\ UNCHANGED <<relayVars, dataVars, matchVars, routerVars, pageVars>>
    \/ TpTokenFailed /\ UNCHANGED <<hls, ext, dataVars, matchVars, routerVars, pageVars>>
    \/ TpSendGet /\ UNCHANGED <<hls, ext, dataVars, matchVars, routerVars, pageVars>>
    \/ \E b \in TpBodies, text \in BOOLEAN : TpUpstreamOk(b, text) /\ UNCHANGED <<hls, ext, dataVars, matchVars, routerVars, pageVars>>
    \/ TpUpstreamFail /\ UNCHANGED <<hls, ext, dataVars, matchVars, routerVars, pageVars>>

SpecTp == Init /\ [][NextTp]_vars

NextExt ==
    \/ \E u \in ExtTargets : ExtRequest(u) /\ UNCHANGED <<tokenVars, hls, tp, dataVars, matchVars, routerVars, pageVars>>
    \/ \E b \in ExtBodies, text \in BOOLEAN :
            ExtUpstreamOk(b, text) /\ UNCHANGED <<tokenVars, hls, tp, dataVars, matchVars, routerVars, pageVars>>
    \/ ExtUpstreamFail /\ UNCHANGED <<tokenVars, hls, tp, dataVars, matchVars, routerVars, pageVars>>

SpecExt == Init /\ [][NextExt]_vars

otherThanData == <<tokenCache, gvt, tokenRequests, lastCall, storedSince, hls, tp, ext, nm,
                   sr, cat, wu>>

NextData ==
    \/ \E c \in Getters : GetData(c) /\ UNCHANGED <<now, otherThanData>>
    \/ \E c \in Getters, e \in ETags : HeadAnswer(c, e) /\ UNCHANGED <<now, otherThanData>>
    \/ \E c \in Getters : HeadError(c) /\ UNCHANGED <<now, otherThanData>>
    \/ \E c \in Getters, ch \in ChannelSnapshots, st \in StreamsAnswers :
            GetAnswer(c, ch, st) /\ UNCHANGED <<now, otherThanData>>
    \/ \E c \in Getters : GetError(c) /\ UNCHANGED <<now, otherThanData>>
    \/ DataTick /\ UNCHANGED <<dataVars, otherThanData>>

SpecData == InitWithCustom /\ [][NextData]_vars

routerUnchanged == <<now, tokenCache, gvt, tokenRequests, lastCall, storedSince, relayVars,
                     customChannels, excludeIptvChannelIds, enableCustomChannels, gd, nm,
                     cat, wu>>

NextStream ==
    \/ \E raw \in RawIds : StreamRequest(raw) /\ UNCHANGED routerUnchanged
    \/ StreamDataCached /\ UNCHANGED routerUnchanged
    \/ \E snapshot \in CatalogSnapshots : StreamDataFetched(snapshot) /\ UNCHANGED routerUnchanged
    \/ StreamDataRejected /\ UNCHANGED routerUnchanged

SpecStream == Init /\ [][NextStream]_vars

NextMatch == MatchNames /\ UNCHANGED <<tokenVars, relayVars, dataVars, routerVars, pageVars>>

SpecMatch == InitNames /\ [][NextMatch]_vars

pagesUnchanged == <<tokenVars, relayVars, dataVars, matchVars, routerVars>>

NextCatalog ==
    \/ \E params \in CatalogParams : CatalogRequest(params) /\ UNCHANGED <<pagesUnchanged, wu>>
    \/ \E data \in CatalogData : CatalogAnswer(data) /\ UNCHANGED <<pagesUnchanged, wu>>
    \/ CatalogRejected /\ UNCHANGED <<pagesUnchanged, wu>>

SpecCatalog == Init /\ [][NextCatalog]_vars

NextWarmup ==
    \/ \E existing \in SUBSET PosterChannels :
            WarmupStart(existing) /\ UNCHANGED <<pagesUnchanged, cat>>
    \/ GeneratePoster /\ UNCHANGED <<pagesUnchanged, cat>>
    \/ DownloadOk /\ UNCHANGED <<pagesUnchanged, cat>>
    \/ \E status \in DownloadFailures : DownloadFail(status) /\ UNCHANGED <<pagesUnchanged, cat>>
    \/ RetrySleepDone /\ UNCHANGED <<pagesUnchanged, cat>>
    \/ ProcessOk /\ UNCHANGED <<pagesUnchanged, cat>>
    \/ ProcessFail /\ UNCHANGED <<pagesUnchanged, cat>>
    \/ WriteOk /\ UNCHANGED <<pagesUnchanged, cat>>
    \/ \E created \in BOOLEAN : WriteFail(created) /\ UNCHANGED <<pagesUnchanged, cat>>
    \/ WarmupTally /\ UNCHANGED <<pagesUnchanged, cat>>
    \/ WarmupEnd /\ UNCHANGED <<pagesUnchanged, cat>>

SpecWarmup == Init /\ [][NextWarmup]_vars

\* concurrent getData calls: the callers, and what one round of GETs
\* (channels.json and streams.json with its etag header) can answer
RoundCallers == 1..NumRoundCallers

Rounds ==
    {[channels |-> <<Channel("r1", N_ProTV, "RO", FALSE, <<>>)>>,
      streamsRes |-> [data |-> <<[channel |-> "r1", url |-> U_cdn]>>, etag |-> "e1"]],
     [channels |-> <<Channel("r2", N_Digi24, "RO", FALSE, <<>>),
                     Channel("r2", N_ProTV, "HU", FALSE, <<>>)>>,
      streamsRes |-> [data |-> <<[channel |-> "r2", url |-> U_seg]>>, etag |-> "e2"]]}

RoundTags == {"", "e1", "e2"}

InitRounds ==
    /\ InitToken /\ InitHls /\ InitTp /\ InitExt /\ InitMatch /\ InitRouter /\ InitPages
    /\ enableCustomChannels = TRUE
    /\ customChannels = <<>>
    /\ excludeIptvChannelIds = {}
    /\ cache = NoCache
    /\ lastFetch = 0
    /\ lastETag = ""
    /\ gd = [c \in RoundCallers |-> NoGet]

NextRounds ==
    \/ \E c \in RoundCallers : GetData(c) /\ UNCHANGED <<now, otherThanData>>
    \/ \E c \in RoundCallers, e \in RoundTags : HeadAnswer(c, e) /\ UNCHANGED <<now, otherThanData>>
    \/ \E c \in RoundCallers : HeadError(c) /\ UNCHANGED <<now, otherThanData>>
    \/ \E c \in RoundCallers, r \in Rounds :
            GetAnswer(c, r.channels, r.streamsRes) /\ UNCHANGED <<now, otherThanData>>
    \/ \E c \in RoundCallers : GetError(c) /\ UNCHANGED <<now, otherThanData>>
    \/ DataTick /\ UNCHANGED <<dataVars, otherThanData>>

SpecRounds == InitRounds /\ [][NextRounds]_vars

\* lines 165, 180-181: the requests of getData are sent without timeout
\* option, so no timer ends them; time passing is all that is certain
FairSpecRounds ==
    InitRounds /\ [][NextRounds]_vars /\ WF_vars(DataTick /\ UNCHANGED <<dataVars, otherThanData>>)

\* the 10 s timeout of line 696 ends a GET that is not answered
HlsTimeout == HlsUpstreamFail("ETIMEDOUT", 502) /\ UNCHANGED <<tokenVars, tp, ext, dataVars, matchVars, routerVars, pageVars>>

\* every stream callback that is ready to run is run by the event loop
HlsCallbacks == (HlsData \/ HlsEnd \/ HlsPipeChunk \/ HlsPipeEnd) /\ UNCHANGED <<tokenVars, tp, ext, dataVars, matchVars, routerVars, pageVars>>

FairSpecHls ==
    Init /\ [][NextHls]_vars /\ WF_vars(HlsTimeout) /\ WF_vars(HlsCallbacks)

FairSpecHlsClient ==
    Init /\ [][NextHlsClient]_vars /\ WF_vars(HlsTimeout) /\ WF_vars(HlsCallbacks)

(***************************************************************************)
(* Claims about the token manager                                          *)
(***************************************************************************)
\* caller c begins a getValidToken(k) call in this step
CallStart(c, k) == gvt[c].pc = "idle" /\ gvt'[c].pc # "idle" /\ gvt'[c].key = k

\* a getValidToken call of caller c returns a record in this step
CallReturns(c) == gvt[c].pc # "returned" /\ gvt'[c].pc = "returned"

\* C1: every record getValidToken returns, from the cache or from a fresh
\* fetch, satisfies expires - now > 30000 at the moment it is returned.
C1_ReturnedTokenOutsideLead ==
    [][\A c \in Callers :
        CallReturns(c) =>
            gvt'[c].ret[1].expires - now' > TOKEN_REFRESH_LEAD_TIME]_vars

\* C2 (as claimed): a call for a key made while the record handed out by the
\* previous call for that key still has expires - now > 30 s returns that same
\* record and sends nothing to the token origin; a call made when the cached
\* record has expires - now <= 30 s (or there is none) sends exactly one
\* request; nothing else sends a request.
C2_ReuseThenOneRefresh ==
    [][\A c \in Callers :
        /\ (/\ CallStart(c, ObservedKey)
            /\ lastCall # <<>>
            /\ lastCall[1].expires - now > TOKEN_REFRESH_LEAD_TIME)
           => (/\ gvt'[c].pc = "returned"
               /\ gvt'[c].ret = lastCall
               /\ tokenRequests' = tokenRequests)
        /\ \A k \in TokenKeys :
            (/\ CallStart(c, k)
             /\ ~(k \in DOMAIN tokenCache
                  /\ tokenCache[k].expires - now > TOKEN_REFRESH_LEAD_TIME))
            => tokenRequests' = tokenRequests + 1
        /\ (\A d \in Callers : gvt[d].pc = "idle" => gvt'[d].pc = "idle")
            => tokenRequests' = tokenRequests]_vars

\* C2 (amended): the same, for two calls between which no fetch that was
\* already in flight stored a record for the key.
C2_ReuseUnlessStoredBetween ==
    [][\A c \in Callers :
        /\ (/\ CallStart(c, ObservedKey)
            /\ lastCall # <<>>
            /\ ~storedSince
            /\ lastCall[1].expires - now > TOKEN_REFRESH_LEAD_TIME)
           => (/\ gvt'[c].pc = "returned"
               /\ gvt'[c].ret = lastCall
               /\ tokenRequests' = tokenRequests)
        /\ \A k \in TokenKeys :
            (/\ CallStart(c, k)
             /\ ~(k \in DOMAIN tokenCache
                  /\ tokenCache[k].expires - now > TOKEN_REFRESH_LEAD_TIME))
            => tokenRequests' = tokenRequests + 1
        /\ (\A d \in Callers : gvt[d].pc = "idle" => gvt'[d].pc = "idle")
            => tokenRequests' = tokenRequests]_vars

\* a second call was served from the cache after the first one fetched, and a
\* later call, made once the lead window was reached, fetched again
C2_Witness ==
    /\ tokenRequests >= 2
    /\ now > 0
    /\ \E c \in Callers :
        /\ gvt[c].pc = "returned"
        /\ gvt[c].key = ObservedKey
        /\ gvt[c].ret = lastCall
        /\ ~storedSince

(***************************************************************************)
(* Claims about /hls-proxy                                                 *)
(***************************************************************************)
\* the request ended with a rewritten playlist sent with status 200
HlsDeliveredPlaylist == hls.pc = "done" /\ hls.status = 200 /\ hls.playlistData # <<>>

\* a line that is not empty, not blank and no comment or directive
IsReferenceLine(L) == L # <<>> /\ Trim(L) # <<>> /\ Head(L) \notin HashAtoms

\* a "//..." reference that names no host cannot be resolved against any base
IsUnresolvable(L) ==
    /\ StartsWith(Trim(L), <<"/", "/">>)
    /\ (Len(Trim(L)) < 3 \/ Trim(L)[3] \notin Hosts)

\* what a client gets back from a rewritten line: the proxy prefix stripped,
\* the rest percent-decoded once
StripAndDecode(o) == DecodeURIComponent(SubSeq(o, Len(HlsPrefix) + 1, Len(o)))

\* the final URL up to and including the last "/" of its path
DirectoryOf(url) == SubSeq(PathOf(url), 1, LastIndexOf(PathOf(url), "/"))

\* C4: once the fetch has ended at a final URL whose host is a dead-stream
\* sentinel, the request is rejected with 404 "Stream not available" and no
\* upstream byte has been delivered.
C4_SentinelHostRejected ==
    (/\ hls.pc \notin {"idle", "fetching"}
     /\ ParsesAsUrl(hls.finalUrl)
     /\ Hostname(hls.finalUrl) \in ErrorDomains)
    => (/\ hls.pc = "done"
        /\ hls.status = 404
        /\ hls.error = "Stream not available"
        /\ hls.out = <<>>
        /\ hls.sent = 1)

C4_Witness ==
    /\ hls.pc = "done"
    /\ hls.finalUrl = F_google
    /\ hls.status = 404

\* C5: a response is never sent twice, and every request whose upstream GET
\* was sent eventually has its one response.
C5_EveryRequestAnswersOnce ==
    /\ [](hls.sent <= 1)
    /\ (hls.pc = "fetching") ~> (hls.pc = "done" /\ hls.sent = 1)

\* C6: every relative reference line of a delivered playlist decodes to the
\* final URL's origin followed by the line when the line starts with "/", and
\* to the final URL's directory followed by the line otherwise.
C6_RelativeLineResolution ==
    HlsDeliveredPlaylist =>
        \A i \in 1..Len(hls.playlistData) :
            LET L == hls.playlistData[i]
                o == hls.out[i]
            IN  (IsReferenceLine(L) /\ Head(L) \notin Schemes /\ ~IsUnresolvable(L))
                => /\ StartsWith(o, HlsPrefix)
                   /\ StripAndDecode(o).ok
                   /\ StripAndDecode(o).v =
                        IF Head(L) = "/" THEN UrlOrigin(hls.finalUrl) \o L
                        ELSE DirectoryOf(hls.finalUrl) \o L

\* C7: the URL a relay endpoint fetches upstream is exactly the target u whose
\* encodeURIComponent the client put in the relay URL.
C7_TargetRoundTrips ==
    /\ hls.pc # "idle" => hls.streamUrl = hls.u
    /\ tp.pc # "idle" => tp.sourceUrl = tp.u
    /\ ext.pc # "idle" => ext.streamUrl = ext.u

\* C8 (as claimed): every reference line of a delivered playlist, relative or
\* absolute, is a proxy URL (lines that cannot be resolved set aside).
C8_EveryReferenceProxied ==
    HlsDeliveredPlaylist =>
        \A i \in 1..Len(hls.playlistData) :
            (IsReferenceLine(hls.playlistData[i]) /\ ~IsUnresolvable(hls.playlistData[i]))
            => StartsWith(hls.out[i], HlsPrefix)

\* C8 (amended): a reference line that begins with "http" is delivered
\* unchanged; every other reference line that can be resolved is a proxy URL
\* embedding an absolute URL.
C8_RelativeProxiedAbsoluteKept ==
    HlsDeliveredPlaylist =>
        \A i \in 1..Len(hls.playlistData) :
            LET L == hls.playlistData[i]
                o == hls.out[i]
            IN  /\ (IsReferenceLine(L) /\ Head(L) \in Schemes) => o = L
                /\ (IsReferenceLine(L) /\ Head(L) \notin Schemes /\ ~IsUnresolvable(L))
                   => /\ StartsWith(o, HlsPrefix)
                      /\ StripAndDecode(o).ok
                      /\ ParsesAsUrl(StripAndDecode(o).v)

C8_Witness ==
    /\ HlsDeliveredPlaylist
    /\ \E i \in 1..Len(hls.playlistData) :
        /\ hls.playlistData[i] = L_absolute
        /\ hls.out[i] = L_absolute

(***************************************************************************)
(* Claims about /token-playlist and /external-proxy                        *)
(***************************************************************************)
TpDeliveredPlaylist == tp.pc = "done" /\ tp.status = 200

ExtDeliveredPlaylist == ext.pc = "done" /\ ext.status = 200

EndsWith(s, q) == Len(q) <= Len(s) /\ SubSeq(s, Len(s) - Len(q) + 1, Len(s)) = q

\* C3: on each of the three playlist-delivering paths, a body delivered as a
\* playlist contains the marker #EXTM3U.
C3_NoPlaylistWithoutMarker ==
    /\ HlsDeliveredPlaylist => HasMarker(hls.playlistData)
    /\ TpDeliveredPlaylist => HasMarker(tp.playlistData)
    /\ ExtDeliveredPlaylist => HasMarker(ext.playlistData)

\* C9: in a playlist delivered by /token-playlist every rewritten reference
\* line is, for a segment, an absolute URL on the true origin that ends with
\* the token and remote parameters of this request's token and, for a nested
\* manifest, a /token-playlist URL embedding the absolute origin URL.
C9_TokenPlaylistLines ==
    TpDeliveredPlaylist =>
        \A i \in 1..Len(tp.playlistData) :
            LET L  == tp.playlistData[i]
                o  == tp.out[i]
                td == tp.tokenData[1]
                e  == DecodeURIComponent(SubSeq(o, Len(TpPrefix) + 1, Len(o)))
            IN  (IsReferenceLine(L) /\ Head(L) \notin Schemes)
                => IF Includes(L, <<".m3u8">>)
                   THEN /\ StartsWith(o, TpPrefix)
                        /\ e.ok
                        /\ ParsesAsUrl(e.v)
                        /\ Hostname(e.v) = Hostname(tp.sourceUrl)
                   ELSE /\ ParsesAsUrl(o)
                        /\ Hostname(o) = Hostname(tp.sourceUrl)
                        /\ EndsWith(o, <<"token", "=", td.token, "&", "remote", "=",
                                         td.remote>>)

(***************************************************************************)
(* Claims: channel merge                                                   *)
(***************************************************************************)
\* a registry channel stays a catalog entry of its own
StaysInCatalog(ch) ==
    /\ ch.id \notin excludeIptvChannelIds
    /\ \A i \in 1..Len(customChannels) :
            LET a == NormalizeChannelName(customChannels[i].name)
                b == NormalizeChannelName(ch.name)
            IN  ~(a = b \/ Includes(a, b) \/ Includes(b, a))

\* C10: the catalog a refresh produced is every curated channel, in curated
\* order and none dropped, followed by exactly the registry channels of that
\* refresh whose id is not excluded and whose name matches no curated
\* channel's name, in registry order.
C10_MergedCatalog ==
    cache.has =>
        LET n == Len(customChannels)
        IN  /\ Len(cache.channels) >= n
            /\ \A i \in 1..n :
                    /\ cache.channels[i].curated
                    /\ cache.channels[i].id = customChannels[i].id
                    /\ cache.channels[i].name = customChannels[i].name
            /\ SubSeq(cache.channels, n + 1, Len(cache.channels))
                    = SelectSeq(cache.registry, StaysInCatalog)

\* a refresh in which a curated channel matched nothing, one registry channel
\* was removed and another one stayed
C10_Witness ==
    /\ cache.has
    /\ \E i \in 1..Len(customChannels) : cache.channels[i].iptvOrgChannelIds = <<>>
    /\ Len(cache.registry) = 2
    /\ Len(cache.channels) = Len(customChannels) + 1

\* the registry part of the cached catalog: the records that are not curated
RegistryPart == SelectSeq(cache.channels, LAMBDA ch : ~ch.curated)

\* the curated part of the cached catalog
CuratedPart == SelectSeq(cache.channels, LAMBDA ch : ch.curated)

\* C11: no registry channel whose id is on the exclusion list is an element
\* of the cached catalog, whether or not its name matches a curated channel.
C11_ExcludedNeverListed ==
    cache.has =>
        \A i \in 1..Len(cache.channels) :
            ~cache.channels[i].curated
            => cache.channels[i].id \notin excludeIptvChannelIds

\* a refresh whose registry held an excluded channel that matches no curated
\* name, and one that stayed
C11_Witness ==
    /\ cache.has
    /\ excludeIptvChannelIds # {}
    /\ \E i \in 1..Len(cache.registry) :
        /\ cache.registry[i].id \in excludeIptvChannelIds
        /\ \A j \in 1..Len(customChannels) :
                ~ChannelNamesMatch(customChannels[j].name, cache.registry[i].name)
    /\ RegistryPart # <<>>

\* C12: in the cached catalog no curated channel has an excluded id among its
\* absorbed registry ids.
C12_AbsorbedNotExcluded ==
    cache.has =>
        \A i \in 1..Len(cache.channels) :
            cache.channels[i].curated
            => \A k \in 1..Len(cache.channels[i].iptvOrgChannelIds) :
                    cache.channels[i].iptvOrgChannelIds[k] \notin excludeIptvChannelIds

\* C13: a registry channel of the refresh whose name matches two or more
\* curated channels has its id among the absorbed ids of the first of them
\* only, and is not in the registry part of the catalog.
C13_AbsorbedByFirstOnly ==
    cache.has =>
        \A r \in 1..Len(cache.registry) :
            LET ch == cache.registry[r]
                matching == {j \in 1..Len(CuratedPart) :
                                ChannelNamesMatch(CuratedPart[j].name, ch.name)}
                first == CHOOSE j \in matching : \A k \in matching : j <= k
            IN  Cardinality(matching) >= 2
                => /\ \E k \in 1..Len(CuratedPart[first].iptvOrgChannelIds) :
                            CuratedPart[first].iptvOrgChannelIds[k] = ch.id
                   /\ \A j \in matching \ {first} :
                        \A k \in 1..Len(CuratedPart[j].iptvOrgChannelIds) :
                            CuratedPart[j].iptvOrgChannelIds[k] # ch.id
                   /\ \A k \in 1..Len(RegistryPart) : RegistryPart[k] # ch

\* the registry channels of the refresh have pairwise different ids
RegistryIdsUnique ==
    \A i, j \in 1..Len(cache.registry) :
        i # j => cache.registry[i].id # cache.registry[j].id

\* C14: no two records of the cached catalog have the same id, whenever the
\* registry snapshot itself lists every id once.
C14_UniqueIds ==
    (cache.has /\ RegistryIdsUnique) =>
        \A i, j \in 1..Len(cache.channels) :
            i # j => cache.channels[i].id # cache.channels[j].id

\* the curated channels as custom-channels.json gives them, before any merge
AsLoaded(custom) == [i \in 1..Len(custom) |-> [custom[i] EXCEPT !.iptvOrgChannelIds = <<>>]]

\* C16: the cached catalog is the one the first merge of any process computes
\* from the same curated set, registry snapshot and exclusion list, so that
\* two merges of the same inputs give the same channels and absorbed ids.
C16_MergeRepeatable ==
    cache.has =>
        cache.channels = AllChannels(enableCustomChannels, AsLoaded(customChannels),
                                     cache.registry, excludeIptvChannelIds)

(***************************************************************************)
(* Claims: channel name matching                                           *)
(***************************************************************************)
AsciiLower == {"p", "t", "v"}
AsciiDigits == {"2"}

\* a name lower-cased, with every character that is no ASCII letter or digit
\* deleted
Stripped(name) ==
    LET low == [i \in 1..Len(name) |->
                    IF name[i] = "P" THEN "p" ELSE IF name[i] = "T" THEN "t" ELSE name[i]]
    IN  SelectSeq(low, LAMBDA ch : ch \in AsciiLower \cup AsciiDigits)

\* a occurs in b as a run of consecutive characters
IsSubstring(a, b) ==
    \E from \in 1..(Len(b) + 1) :
        /\ from + Len(a) - 1 <= Len(b)
        /\ \A k \in 1..Len(a) : b[from + k - 1] = a[k]

\* C15: channelNamesMatch(a, b) is true exactly when the stripped names are
\* equal or one is a substring of the other, and gives the same answer for
\* (b, a).
C15_MatchIffContained ==
    nm.pc = "returned" =>
        LET a == Stripped(nm.name1)
            b == Stripped(nm.name2)
        IN  /\ nm.result <=> (a = b \/ IsSubstring(a, b) \/ IsSubstring(b, a))
            /\ nm.swapped = nm.result

\* a call that matched through containment only, upper case and a sign removed
C15_Witness ==
    /\ nm.pc = "returned"
    /\ nm.result
    /\ nm.name1 = <<"P", "+">>
    /\ nm.name2 = <<"T", "P">>

(***************************************************************************)
(* Claims: origin data cache                                               *)
(***************************************************************************)
\* the cached pair is less than one TTL old
WithinTTL == cache.has /\ now - lastFetch < TTL

\* caller c issues the GETs of channels.json and streams.json in this step
IssuesFullFetch(c) == gd[c].pc # "get" /\ gd'[c].pc = "get"

\* C17: a call made while the cached pair is less than one hour old issues no
\* full re-fetch: neither at once nor after its probe.
C17_NoRefetchWithinTTL ==
    [][\A c \in Getters :
            ((gd[c].pc = "idle" /\ WithinTTL) \/ gd[c].pc = "head")
            => ~IssuesFullFetch(c)]_vars

\* C18: a call made once the cached pair is one hour old or older issues the
\* probe first, and returns the cache without a full re-fetch when the tag
\* the probe brings equals the stored one.
C18_ProbeAfterExpiry ==
    [][\A c \in Getters :
            (gd[c].pc = "idle" /\ gd'[c].pc # "idle" /\ cache.has /\ now - lastFetch >= TTL)
            => gd'[c].pc = "head"]_vars

\* C19: when the probe fails, the call returns the cached pair and cache,
\* lastFetch and lastETag stay as they were.
C19_ProbeFailureServesCache ==
    [][\A c \in Getters :
            HeadError(c)
            => /\ cache.has
               /\ gd'[c].pc = "idle"
               /\ gd'[c].result \in ReturnedCache
               /\ cache' = cache /\ lastFetch' = lastFetch /\ lastETag' = lastETag]_vars

\* a call whose probe failed has returned the cache
C19_Witness ==
    \E c \in Getters : gd[c].pc = "idle" /\ gd[c].result = "stale" /\ cache.has

\* C20: when the GETs of a refresh fail while a cached pair is held, the call
\* returns the cached pair.
C20_RefreshFailureServesCache ==
    [][\A c \in Getters :
            (GetError(c) /\ cache.has) => gd'[c].result \in ReturnedCache]_vars

\* C21: when the GETs fail while nothing is cached, the call is rejected,
\* cache, lastFetch and lastETag stay in their initial state, and a call made
\* with nothing cached goes to the GETs.
C21_ColdFailureRejects ==
    [][\A c \in Getters :
            /\ (GetError(c) /\ ~cache.has)
               => /\ gd'[c].result = "rejected"
                  /\ cache' = NoCache /\ lastFetch' = 0 /\ lastETag' = ""
            /\ (gd[c].pc = "idle" /\ gd'[c].pc # "idle" /\ ~cache.has)
               => gd'[c].pc = "get"]_vars

\* a call was rejected and nothing is cached
C21_Witness ==
    \E c \in Getters : gd[c].pc = "idle" /\ gd[c].result = "rejected" /\ cache = NoCache

(***************************************************************************)
(* Claims: token manager errors and replacement                            *)
(***************************************************************************)
\* the token fetch of caller c ends in this step without a token: the origin
\* was unreachable or its answer had no token field
FetchFailsFor(c) ==
    \/ FetchTokenError(c)
    \/ \E d \in OriginAnswers(now) : d.token = "" /\ FetchTokenAnswer(c, d)

\* C22: a getValidToken call whose fetch ends without a token fails, and
\* neither its first step nor its failing step changes the token cache.
C22_FailedFetchKeepsCache ==
    [][\A c \in Callers :
            /\ FetchFailsFor(c) => (gvt'[c].pc = "failed" /\ tokenCache' = tokenCache)
            /\ (gvt[c].pc = "idle" /\ gvt'[c].pc # "idle") => tokenCache' = tokenCache]_vars

\* a call has failed while the cache holds a record for its key
C22_Witness ==
    \E c \in Callers : gvt[c].pc = "failed" /\ gvt[c].key \in DOMAIN tokenCache

\* C23: the token cache maps base URLs to one record each; a fetch that
\* brought a token leaves under its key exactly the fetched record and leaves
\* the records of all other keys as they were.
C23_FetchedRecordReplaces ==
    /\ [](DOMAIN tokenCache \subseteq TokenKeys)
    /\ [][\A c \in Callers : \A d \in OriginAnswers(now) :
            (d.token # "" /\ FetchTokenAnswer(c, d))
            => /\ DOMAIN tokenCache' = DOMAIN tokenCache \cup {gvt[c].key}
               /\ tokenCache'[gvt[c].key] =
                    [token |-> d.token,
                     remote |-> IF d.remote = "" THEN "no_check_ip" ELSE d.remote,
                     expires |-> d.expires * 1000]
               /\ \A k \in DOMAIN tokenCache \ {gvt[c].key} :
                    tokenCache'[k] = tokenCache[k]]_vars

\* a fetched record without a remote field sits next to another key's record
C23_Witness ==
    /\ U_ch1 \in DOMAIN tokenCache /\ U_ch2 \in DOMAIN tokenCache
    /\ tokenCache[U_ch1].token = "t1" /\ tokenCache[U_ch1].remote = "no_check_ip"
    /\ tokenCache[U_ch2].remote = "ip1"
    /\ \E c \in Callers : gvt[c].pc = "returned" /\ gvt[c].ret = <<tokenCache[U_ch1]>>

(***************************************************************************)
(* Claims: rewriting failures and rejection statuses of the relays         *)
(***************************************************************************)
\* a /hls-proxy.php?src=... reference whose src parameter is no valid
\* percent-encoding
IsUndecodable(L) ==
    /\ StartsWith(Trim(L), <<"/", "hls-proxy.php", "?", "src", "=">>)
    /\ SrcCapture(Trim(L)) # <<>>
    /\ ~DecodeURIComponent(SrcCapture(Trim(L))).ok

\* the /hls-proxy half of C29: a request whose buffered body carries the
\* marker ends delivered, with every unresolvable reference line verbatim and
\* every other relative reference line rewritten
HlsFailedLineKeptVerbatim ==
    (hls.pc = "done" /\ HasMarker(hls.playlistData))
    => /\ HlsDeliveredPlaylist
       /\ \A i \in 1..Len(hls.playlistData) :
            LET L == hls.playlistData[i]
            IN  (IsReferenceLine(L) /\ Head(L) \notin Schemes)
                => IF IsUnresolvable(L) THEN hls.out[i] = L
                   ELSE StartsWith(hls.out[i], HlsPrefix)

\* the /token-playlist half of C29
TpFailedLineKeptVerbatim ==
    (tp.pc = "done" /\ HasMarker(tp.playlistData))
    => /\ TpDeliveredPlaylist
       /\ \A i \in 1..Len(tp.playlistData) :
            LET L == tp.playlistData[i]
            IN  (IsReferenceLine(L) /\ Head(L) \notin Schemes)
                => IF IsUndecodable(L) THEN tp.out[i] = L
                   ELSE tp.out[i] # L

\* C29: in /hls-proxy and in /token-playlist a playlist with a reference line
\* whose rewriting fails is still delivered, with that line verbatim and the
\* other reference lines rewritten.
C29_FailedLineKeptVerbatim ==
    /\ HlsFailedLineKeptVerbatim
    /\ TpFailedLineKeptVerbatim

\* C30: two /hls-proxy requests rejected for failures of different classes
\* (StreamUnavailable, InvalidFormat, UpstreamTimeout, UpstreamRefused,
\* UpstreamError) carry different HTTP statuses.
C30_ClassesHaveDistinctStatuses ==
    (FailureClass(hls) # "none" /\ hls.prev.class # "none"
        /\ FailureClass(hls) # hls.prev.class)
    => hls.status # hls.prev.status

(***************************************************************************)
(* Claims: the stream router                                               *)
(***************************************************************************)
\* the channel the answered request resolved to in the catalog it was
\* answered from, <<>> when the id is unknown
RouterChannel == FindChannel(cache.channels, sr.id)

\* the handler ran to its end or threw after getData() had resolved
RouterRan == sr.pc \in {"done", "unanswered"} /\ sr.error # "DataUnavailable"

\* position of the curated source of ch named t, 0 when there is none
SourceIndex(ch, t) ==
    LET at == {i \in 1..Len(ch.sources) : ch.sources[i].name = t}
    IN  IF at = {} THEN 0 ELSE CHOOSE i \in at : TRUE

\* position of the streams.json entry titled t, 0 when there is none
StreamIndex(t) ==
    LET at == {i \in 1..Len(cache.streams) : cache.streams[i].title = t}
    IN  IF at = {} THEN 0 ELSE CHOOSE i \in at : TRUE

\* the registry ids whose stream entries belong to ch: the absorbed ids of a
\* curated channel, its own id otherwise
ListedIds(ch) ==
    IF "iptvOrgChannelIds" \notin ch.absent THEN ch.iptvOrgChannelIds ELSE <<ch.id>>

IdIndex(ch, id) ==
    LET at == {k \in 1..Len(ListedIds(ch)) : ListedIds(ch)[k] = id}
    IN  IF at = {} THEN 0 ELSE CHOOSE k \in at : \A m \in at : k <= m

\* the descriptor titled a is due before the one titled b
ComesBefore(ch, a, b) ==
    IF SourceIndex(ch, a) > 0
    THEN SourceIndex(ch, b) = 0 \/ SourceIndex(ch, a) < SourceIndex(ch, b)
    ELSE /\ SourceIndex(ch, b) = 0
         /\ StreamIndex(a) > 0 /\ StreamIndex(b) > 0
         /\ LET ia == IdIndex(ch, cache.streams[StreamIndex(a)].channel)
                ib == IdIndex(ch, cache.streams[StreamIndex(b)].channel)
            IN  ia > 0 /\ (ia < ib \/ (ia = ib /\ StreamIndex(a) < StreamIndex(b)))

\* C24: in an answer the descriptors of the curated sources come first, in
\* the order of channel.sources, then those of the registry streams, by
\* absorbed id in absorption order and within one id in the order of
\* streams.json; a request answered from the same catalog as the previous one
\* for the same id gets the same list.
C24_StableOrder ==
    sr.pc = "done"
    => /\ RouterChannel # <<>>
          => \A i, j \in 1..Len(sr.streams) :
                i < j => ComesBefore(RouterChannel[1], sr.streams[i].title,
                                     sr.streams[j].title)
       /\ (/\ sr.prev.id = sr.id
           /\ sr.prev.channels = cache.channels
           /\ sr.prev.streams = cache.streams)
          => sr.streams = sr.prev.answer

\* the channel with four sources and the absorbed ids r2, r1 was answered
\* twice from the same catalog
C24_Witness ==
    /\ sr.pc = "done" /\ sr.id = <<"c1">> /\ sr.prev.id = <<"c1">>
    /\ sr.prev.streams = cache.streams
    /\ Len(sr.streams) = 7
    /\ sr.streams[4].title = "s4" /\ sr.streams[5].title = "t2"
    /\ sr.streams[6].title = "t1" /\ sr.streams[7].title = "t3"

\* the src parameter of a source URL, percent-decoded
NestedSrc(u) == DecodeURIComponent(SrcCapture(u))

NamesTokenOrigin(u) ==
    /\ ParsesAsUrl(u)
    /\ SrcCapture(u) # <<>>
    /\ NestedSrc(u).ok
    /\ ContainsDomain(NestedSrc(u).v, "magicplaces.eu")

\* o is the relay URL with this prefix that embeds exactly the target
IsRelay(o, prefix, target) ==
    /\ StartsWith(o, prefix)
    /\ DecodeURIComponent(SubSeq(o, Len(prefix) + 1, Len(o))).ok
    /\ DecodeURIComponent(SubSeq(o, Len(prefix) + 1, Len(o))).v = target

\* C25: the descriptor of a curated source is a relay URL of exactly one
\* kind: /token-playlist/ with the nested src URL when the source URL contains
\* ivanturbinca.com/hls-proxy.php, parses and has a src parameter that names
\* magicplaces.eu; /external-proxy/ with the source URL when it otherwise
\* contains ivanturbinca.com; /hls-proxy/ with the source URL in every other
\* case; it is never the source URL itself.
C25_CuratedStrategy ==
    (sr.pc = "done" /\ RouterChannel # <<>> /\ "sources" \notin RouterChannel[1].absent)
    => \A i \in 1..Len(RouterChannel[1].sources) :
            LET u == RouterChannel[1].sources[i].url
                o == sr.streams[i].url
            IN  /\ o # u
                /\ Cardinality({q \in {TpPrefix, ExtPrefix, HlsPrefix} : StartsWith(o, q)}) = 1
                /\ IF ContainsProxyScript(u) /\ NamesTokenOrigin(u)
                   THEN IsRelay(o, TpPrefix, NestedSrc(u).v)
                   ELSE IF ContainsDomain(u, "ivanturbinca.com")
                        THEN IsRelay(o, ExtPrefix, u)
                        ELSE IsRelay(o, HlsPrefix, u)

\* the answer for the channel whose sources are of all kinds: a token
\* playlist, two external wraps (one for a URL that does not parse) and a
\* generic proxy
C25_Witness ==
    /\ sr.pc = "done" /\ sr.id = <<"c1">> /\ Len(sr.streams) = 7
    /\ sr.streams[1].url = TpPrefix \o EncodeURIComponent(U_ch1)
    /\ StartsWith(sr.streams[2].url, ExtPrefix)
    /\ sr.streams[3].url = ExtPrefix \o EncodeURIComponent(U_noscheme)
    /\ StartsWith(sr.streams[4].url, HlsPrefix)

\* the deny-list of registry stream URLs
OnDenyList(u) ==
    \/ ~ParsesAsUrl(u)
    \/ HostSubstrings(Hostname(u)) \cap {"ivanturbinca.com", "magicplaces.eu"} # {}
    \/ \E i \in 1..Len(u) : u[i] = "hls-proxy.php"

\* C26: the descriptor of a streams.json entry carries the entry's URL itself
\* unless the URL is on the deny-list, and then <base>/hls-proxy/ followed by
\* encodeURIComponent of the entry's URL.
C26_RegistryDirectOrProxied ==
    (sr.pc = "done" /\ RouterChannel # <<>>)
    => \A j \in 1..Len(sr.streams) :
            StreamIndex(sr.streams[j].title) > 0
            => LET e == cache.streams[StreamIndex(sr.streams[j].title)]
               IN  sr.streams[j].url = IF OnDenyList(e.url)
                                       THEN HlsPrefix \o EncodeURIComponent(e.url)
                                       ELSE e.url

\* an answer with a direct entry, one proxied for a host that contains
\* magicplaces.eu and one proxied for hls-proxy.php in its URL
C26_Witness ==
    /\ sr.pc = "done" /\ sr.id = <<"c1">> /\ Len(sr.streams) = 7
    /\ sr.streams[5].url = U_cdn
    /\ sr.streams[6].url = HlsPrefix \o EncodeURIComponent(U_sub)
    /\ sr.streams[7].url = HlsPrefix \o EncodeURIComponent(U_cdnphp)

\* ch has no curated source and no stream entry under one of its ids
NothingToOffer(ch) ==
    /\ ("sources" \in ch.absent \/ ch.sources = <<>>)
    /\ \A k \in 1..Len(cache.streams) : IdIndex(ch, cache.streams[k].channel) = 0

\* C27: once getData() has resolved, a request for an id that is not in the
\* catalog, or for a channel with no curated source and no stream entry, is
\* answered with status 200 and an empty stream list.
C27_EmptyIsNotAnError ==
    (RouterRan /\ (RouterChannel = <<>> \/ NothingToOffer(RouterChannel[1])))
    => (sr.pc = "done" /\ sr.status = 200 /\ sr.streams = <<>>)

\* a request for a channel with absorbed ids but no stream entry was answered
\* after a request for an unknown id
C27_Witness ==
    /\ sr.pc = "done" /\ sr.id = <<"c4">> /\ sr.streams = <<>>
    /\ RouterChannel # <<>>
    /\ sr.prev.id = <<"zz">> /\ sr.prev.channels # <<>> /\ sr.prev.answer = <<>>

\* C28: once getData() has resolved, the answer for a known channel carries a
\* descriptor for every curated source that has a url and for every stream
\* entry under one of the channel's ids, whatever its other sources are.
C28_BadSourceIsolated ==
    (RouterRan /\ RouterChannel # <<>>)
    => LET ch == RouterChannel[1]
       IN  /\ sr.pc = "done"
           /\ "sources" \notin ch.absent
              => \A i \in 1..Len(ch.sources) :
                    "url" \notin ch.sources[i].absent
                    => \E j \in 1..Len(sr.streams) :
                            sr.streams[j].title = ch.sources[i].name
           /\ "iptvOrgChannelIds" \notin ch.absent
              => \A k \in 1..Len(cache.streams) :
                    IdIndex(ch, cache.streams[k].channel) > 0
                    => \E j \in 1..Len(sr.streams) :
                            sr.streams[j].title = cache.streams[k].title

(***************************************************************************)
(* Claims: concurrent refreshes                                            *)
(***************************************************************************)
\* the cached pair and the stored tag are those of one round of GETs
FromOneRound ==
    \E r \in Rounds :
        /\ cache.registry = RomanianChannels(r.channels)
        /\ cache.channels = RomanianChannels(r.channels)
        /\ cache.streams = r.streamsRes.data
        /\ lastETag = r.streamsRes.etag

\* caller c has just seen that the cache cannot be served: nothing cached or
\* the TTL over when it calls, or a probe in flight that is answered
ObservedMiss(c) ==
    \/ gd[c].pc = "idle" /\ ~WithinTTL
    \/ gd[c].pc = "head"

IndicatesPlaylist(ct, streamUrl) ==
    \/ ct = "application/vnd.apple.mpegurl"
    \/ \E i \in 1..Len(streamUrl) : streamUrl[i] = ".m3u8"

\* C32: an accepted upstream response of /hls-proxy is buffered exactly when
\* its content-type header or the request URL indicates a playlist; every
\* other response, one without content-type header included, is piped.
C32_OnlyPlaylistsBuffered ==
    [][\A r \in ResponseUrls, ct \in ContentTypes, b \in HlsBodies :
            (HlsUpstreamOk(r, ct, b) /\ hls'.pc \in {"buffering", "piping"})
            => (hls'.pc = "buffering" <=> IndicatesPlaylist(ct, hls.streamUrl))]_vars

\* the upstream response stream of the request is open
UpstreamOpen == hls.pc \in {"buffering", "piping"}

\* C33: when the client has disconnected while a body is buffered or piped,
\* the upstream stream is eventually no longer open, and the upstream fetch
\* is sent only when a request arrives, never again afterwards.
C33_DisconnectReleasesUpstream ==
    /\ (hls.clientGone /\ UpstreamOpen) ~> ~UpstreamOpen
    /\ [][hls'.pc = "fetching" => hls.pc \in {"idle", "done"}]_vars

\* C34: a getData call that waits for its probe or for its GETs eventually
\* returns or rejects, also when the upstream never answers.
C34_FetchesEnd ==
    \A c \in RoundCallers : (gd[c].pc \in {"head", "get"}) ~> (gd[c].pc = "idle")

(***************************************************************************)
(* Claims: absorbed ids across refreshes, streams across the merge         *)
(***************************************************************************)
\* the ids of the registry channels of the cached refresh whose name matches
MatchingIdsNow(name) ==
    LET matching == SelectSeq(cache.registry, LAMBDA ch : ChannelNamesMatch(name, ch.name))
    IN  [i \in 1..Len(matching) |-> matching[i].id]

\* C35: in the catalog of a refresh the absorbed ids of every curated channel
\* are the ids of the registry channels of that refresh whose names match
\* it, and none when nothing matches any more.
C35_AbsorbedIdsOfThisSnapshot ==
    cache.has =>
        \A i \in 1..Len(CuratedPart) :
            CuratedPart[i].iptvOrgChannelIds = MatchingIdsNow(CuratedPart[i].name)

\* the cached catalog as the router reads it: a curated channel has one
\* source and, as long as it never matched, no iptvOrgChannelIds property;
\* a registry channel has neither property
RouterView(ch) ==
    CatalogChannel(ch.id, ch.curated,
        IF ch.curated THEN <<Source("s1", U_esc)>> ELSE <<>>,
        ch.iptvOrgChannelIds,
        IF ~ch.curated THEN {"sources", "iptvOrgChannelIds"}
        ELSE IF ch.iptvOrgChannelIds = <<>> THEN {"iptvOrgChannelIds"} ELSE {})

RouterCatalog == [i \in 1..Len(cache.channels) |-> RouterView(cache.channels[i])]

RouterStreams ==
    [k \in 1..Len(cache.streams) |->
        StreamEntry(cache.streams[k].channel, cache.streams[k].url, "")]

\* /stream answers the request for id with a descriptor of stream entry e
Emits(id, e) ==
    LET a == StreamAnswer(RouterCatalog, RouterStreams, <<id>>)
    IN  /\ a.pc = "done"
        /\ \E j \in 1..Len(a.streams) : a.streams[j].url = RegistryStreamObject(e, "").url

\* C36: every stream entry of a registry channel of the refresh that a curated
\* channel's name matches is emitted for some curated channel, and every
\* stream entry of a registry channel that is in the catalog is emitted for
\* that channel's id.
C36_MergeLosesNoStream ==
    cache.has =>
        \A r \in 1..Len(cache.registry), k \in 1..Len(cache.streams) :
            LET ch == cache.registry[r]
                e  == RouterStreams[k]
            IN  e.channel = ch.id
                => /\ (\E i \in 1..Len(CuratedPart) :
                            ChannelNamesMatch(CuratedPart[i].name, ch.name))
                      => \E i \in 1..Len(CuratedPart) : Emits(CuratedPart[i].id, e)
                   /\ (\E i \in 1..Len(RegistryPart) : RegistryPart[i] = ch)
                      => Emits(ch.id, e)

RelayPrefixes == {HlsPrefix, ExtPrefix, TpPrefix}

IsRelayUrl(o) == \E p \in RelayPrefixes : StartsWith(o, p)

\* what the addressed endpoint decodes from relay URL o is an absolute URL
EmbedsAbsoluteUrl(o) ==
    \E p \in RelayPrefixes :
        /\ StartsWith(o, p)
        /\ LET e == DecodeURIComponent(SubSeq(o, Len(p) + 1, Len(o)))
           IN  e.ok /\ ParsesAsUrl(e.v)

\* C37: every relay URL written into a playlist delivered by /external-proxy
\* embeds an absolute URL, also where the reference line of the upstream
\* manifest is a plain relative path.
C37_RelayUrlsEmbedAbsolute ==
    ExtDeliveredPlaylist =>
        \A i \in 1..Len(ext.out) : IsRelayUrl(ext.out[i]) => EmbedsAbsoluteUrl(ext.out[i])

PageCount(page, c) == Cardinality({j \in 1..Len(page) : page[j] = c})

\* C38: with no search and no genre filter, every channel of the snapshot
\* that has a curated source or a registry stream is on exactly one of the
\* first page and the "see all" page; the first page holds exactly those
\* whose name contains a priority name, in the order of the first priority
\* name they contain.
C38_PagesPartitionCatalog ==
    (cat.first.known /\ cat.rest.known) =>
        LET first == cat.first.channels
            rest  == cat.rest.channels
        IN  /\ \A i \in 1..Len(cat.data.channels) :
                    LET c == cat.data.channels[i]
                    IN  IF Len(c.sources) > 0
                           \/ \E k \in 1..Len(cat.data.streams) :
                                    cat.data.streams[k].channel = c.id
                        THEN /\ PageCount(first, c) + PageCount(rest, c) = 1
                             /\ PageCount(first, c) = 1 <=> IsPriority(c)
                        ELSE PageCount(first, c) + PageCount(rest, c) = 0
            /\ \A i, j \in 1..Len(first) :
                    i < j => PriorityIndex(first[i]) <= PriorityIndex(first[j])

\* both pages of one snapshot were answered; the first page had to be
\* reordered and the "see all" page is not empty
C38_Witness ==
    /\ cat.first.known /\ cat.rest.known
    /\ cat.first.channels = <<G_protvhd, G_protv, G_antena, G_kiss>>
    /\ cat.rest.channels = <<G_digi>>

\* C39: a call of generatePoster that returned has one of the three
\* statuses; it downloaded nothing if the poster file existed, downloaded at
\* most MAX_RETRIES times, began a further download only after a 429 and a
\* wait of RETRY_DELAY_MS times the attempt number, failed only after a
\* non-429 error or the last attempt, and left no poster file if it failed.
C39_PosterOutcome ==
    /\ [](wu.pc = "returned" =>
            /\ wu.result \in {"skipped", "generated", "failed"}
            /\ wu.existed => (wu.result = "skipped" /\ wu.downloads = 0)
            /\ wu.downloads <= MAX_RETRIES
            /\ wu.result = "failed"
                  => /\ wu.lastStatus # 429 \/ wu.downloads = MAX_RETRIES
                     /\ wu.i \notin wu.files)
    /\ [][(wu'.downloads = wu.downloads + 1 /\ wu.downloads >= 1)
            => (wu.lastStatus = 429 /\ wu'.waited = RETRY_DELAY_MS * wu.downloads)]_vars

=============================================================================
